---------------------------- MODULE Spec2Model ----------------------------
(***************************************************************************)
(* The KLU sparse direct linear solver of SUNDIALS                         *)
(* (src/src/sunlinsol_klu/sunlinsol_klu.c) as a state machine, followed by *)
(* the KINBAND band linear solver (src/kinsol/source/kinsol_band.c) and by *)
(* the calls of the preconditioner setup routine that                      *)
(* src/cvode/include/cvode_spils.h declares.                               *)
(*                                                                         *)
(* The solver content (struct _SUNLinearSolverContent_KLU) is the record   *)
(* S.  The symbolic and numeric factorization objects live in a heap of    *)
(* MaxObjs slots; S.symbolic and S.numeric are pointers into it (NULL = 0).*)
(* The KLU kernels (sun_klu_analyze, sun_klu_factor, ...) are external:    *)
(* whether a kernel call succeeds, and the estimates it writes, are inputs *)
(* of the operation (the record ks), drawn from small sets; each kernel    *)
(* call is recorded in kcalls with its arguments and its result.           *)
(*                                                                         *)
(* Each action is one whole API call.  The history variables op, arg, ret  *)
(* and kcalls record the last call: its name, its arguments, the value it  *)
(* returned and the kernel calls it made.                                  *)
(***************************************************************************)
EXTENDS Integers, Sequences, FiniteSets

VARIABLES
  alive,      \* the process has not crashed on undefined behaviour
  handle,     \* the caller's solver handle: "live", or "freed" by SUNLinSolFree_KLU
  S,          \* the solver content: last_flag, first_factorize, symbolic, numeric, common, klu_solver
  heap,       \* the factorization objects, by address
  A,          \* the caller's sparse matrix handle
  x,          \* the caller's solution vector
  b,          \* the caller's right-hand side
  op,         \* name of the last API call
  arg,        \* its arguments
  ret,        \* its return value
  kcalls,     \* the kernel calls it made, in order
  kin_mem,    \* the KINSOL memory: lfree, lmem, lsetup, setupNonNull, inexact_ls
  kinband_mem,\* the band solver memory lmem points to
  spils       \* the layer that calls the preconditioner setup routine

kluvars == <<alive, handle, S, heap, A, x, b, op, arg, ret, kcalls>>

bandvars == <<kin_mem, kinband_mem>>

vars == <<kluvars, bandvars, spils>>

---------------------------------------------------------------------------
(* Bounds of the model *)

\* heap slots for factorization objects
MaxObjs == 3
\* length of the caller's vectors x and b
VecLen == 2
\* rows and columns of the matrices, and lengths of the vectors, that are
\* passed to the constructor
MaxRows == 2
\* rcond estimates range over 1..MaxRcond, condest estimates over
\* 2..MaxCondest (grid units, see below)
MaxRcond == 2
MaxCondest == 3

---------------------------------------------------------------------------
(* Program constants *)

NULL == 0

\* status codes of the generic linear solver interface: success is 0,
\* recoverable failures are positive, unrecoverable ones negative
SUNLS_SUCCESS == 0
SUNLS_MEM_NULL == -1
SUNLS_ILL_INPUT == -2
SUNLS_MEM_FAIL == -3
SUNLS_PACKAGE_FAIL_UNREC == -7
SUNLS_PACKAGE_FAIL_REC == 6

CSC_MAT == 0
CSR_MAT == 1

SUNKLU_ORDERING_DEFAULT == 1

\* Reals are kept on a grid.  rcond is counted in units of
\* uround_twothirds / 2, so that the threshold SUNRpowerR(UNIT_ROUNDOFF,
\* TWOTHIRDS) is 2: the estimates 1 (below it) and 2 (equal to it) occur.
uround_twothirds == 2
\* condest is counted in units of (ONE/uround_twothirds) / 2: the estimates
\* 2 (equal to the threshold) and 3 (above it) occur.
inv_uround_twothirds == 2

Rconds == 1..MaxRcond
Condests == 2..MaxCondest
\* the caller's matrix is a*I; its diagonal value a
MatVals == {2}

---------------------------------------------------------------------------
(* Heap of factorization objects *)

FreeObj == [live |-> FALSE, kind |-> "none", ordering |-> 0, sym |-> NULL,
            valid |-> FALSE, a |-> 0]

Slots == 1..MaxObjs

FreeSlots(h) == {i \in Slots : ~h[i].live}

\* the address malloc hands out: the lowest free slot
NewSlot(h) == CHOOSE i \in FreeSlots(h) : \A j \in FreeSlots(h) : i <= j

\* a record of one kernel call: the kernel, the symbolic and numeric handles
\* passed to it, whether it succeeded, and the estimate it wrote (if any)
K(fn, sym, num, ok, val) ==
  [fn |-> fn, sym |-> sym, num |-> num, ok |-> ok, val |-> val]

\* The machine threaded through one API call: the content, the heap and the
\* kernel calls made so far.
Machine(s, h) == [S |-> s, heap |-> h, kc |-> <<>>]

---------------------------------------------------------------------------
(* The KLU kernels, as used by the solver *)

\* sun_klu_free_symbolic(&SYMBOLIC(S), &COMMON(S)): frees the object and
\* sets the handle to NULL
sun_klu_free_symbolic(m) ==
  [m EXCEPT !.heap[m.S.symbolic] = FreeObj,
            !.S.symbolic = NULL,
            !.kc = Append(@, K("free_symbolic", m.S.symbolic, NULL, TRUE, 0))]

\* sun_klu_free_numeric(&NUMERIC(S), &COMMON(S))
sun_klu_free_numeric(m) ==
  [m EXCEPT !.heap[m.S.numeric] = FreeObj,
            !.S.numeric = NULL,
            !.kc = Append(@, K("free_numeric", NULL, m.S.numeric, TRUE, 0))]

\* SYMBOLIC(S) = sun_klu_analyze(...): a new symbolic object computed with
\* the ordering of COMMON(S), or NULL
sun_klu_analyze(m, M, ok) ==
  IF ok /\ FreeSlots(m.heap) # {}
  THEN LET id == NewSlot(m.heap) IN
       [m EXCEPT !.heap[id] = [live |-> TRUE, kind |-> "symbolic",
                               ordering |-> m.S.common.ordering,
                               sym |-> NULL, valid |-> M.live, a |-> 0],
                 !.S.symbolic = id,
                 !.kc = Append(@, K("analyze", NULL, NULL, TRUE, 0))]
  ELSE [m EXCEPT !.S.symbolic = NULL,
                 !.kc = Append(@, K("analyze", NULL, NULL, FALSE, 0))]

\* NUMERIC(S) = sun_klu_factor(..., SYMBOLIC(S), &COMMON(S)): a new numeric
\* object holding the factors of the matrix, or NULL
sun_klu_factor(m, M, ok) ==
  IF ok /\ m.S.symbolic # NULL /\ FreeSlots(m.heap) # {}
  THEN LET id == NewSlot(m.heap) IN
       [m EXCEPT !.heap[id] = [live |-> TRUE, kind |-> "numeric",
                               ordering |-> 0, sym |-> m.S.symbolic,
                               valid |-> M.live, a |-> M.a],
                 !.S.numeric = id,
                 !.kc = Append(@, K("factor", m.S.symbolic, NULL, TRUE, 0))]
  ELSE [m EXCEPT !.S.numeric = NULL,
                 !.kc = Append(@, K("factor", m.S.symbolic, NULL, FALSE, 0))]

\* whether sun_klu_refactor returns nonzero: never with a NULL handle
RefactorSucceeds(m, ok) == ok /\ m.S.symbolic # NULL /\ m.S.numeric # NULL

\* retval = sun_klu_refactor(..., SYMBOLIC(S), NUMERIC(S), &COMMON(S)):
\* overwrites the factors in place; a failed run leaves them unusable
sun_klu_refactor(m, M, ok) ==
  LET n == m.S.numeric
      m1 == [m EXCEPT !.kc = Append(@, K("refactor", m.S.symbolic, n,
                                         RefactorSucceeds(m, ok), 0))]
  IN IF n = NULL THEN m1
     ELSE IF RefactorSucceeds(m, ok)
          THEN [m1 EXCEPT !.heap[n].valid = M.live, !.heap[n].a = M.a]
          ELSE [m1 EXCEPT !.heap[n].valid = FALSE]

\* retval = sun_klu_rcond(SYMBOLIC(S), NUMERIC(S), &COMMON(S)): writes
\* COMMON(S).rcond when it succeeds
sun_klu_rcond(m, ok, r) ==
  LET m1 == [m EXCEPT !.kc = Append(@, K("rcond", m.S.symbolic, m.S.numeric,
                                         ok, IF ok THEN r ELSE 0))]
  IN IF ok THEN [m1 EXCEPT !.S.common.rcond = r] ELSE m1

\* retval = sun_klu_condest(..., SYMBOLIC(S), NUMERIC(S), &COMMON(S)):
\* writes COMMON(S).condest when it succeeds
sun_klu_condest(m, ok, c) ==
  LET m1 == [m EXCEPT !.kc = Append(@, K("condest", m.S.symbolic, m.S.numeric,
                                         ok, IF ok THEN c ELSE 0))]
  IN IF ok THEN [m1 EXCEPT !.S.common.condest = c] ELSE m1

\* LASTFLAG(S) = f; return(LASTFLAG(S));
Return(m, f) == [m |-> [m EXCEPT !.S.last_flag = f], ret |-> f]

---------------------------------------------------------------------------
(* Matrices and vectors of the caller *)

SUNMATRIX_SPARSE == "SUNMATRIX_SPARSE"
SUNMATRIX_DENSE == "SUNMATRIX_DENSE"

\* a live dense matrix the caller may pass by mistake
DenseMat == [live |-> TRUE, id |-> SUNMATRIX_DENSE, sparsetype |-> CSC_MAT,
             nnz |-> 0, a |-> 1]

\* the matrix behind a handle the caller passes
Deref(h) == IF h = "A" THEN A ELSE DenseMat

ZeroVec == [i \in 1..VecLen |-> 0]


\* the caller's right-hand side: even entries, all different
RhsVec == [i \in 1..VecLen |-> 2 * i]

\* the vector arguments the caller passes to solve: its x and b, the pair
\* of empty vectors (length 0, no data array), or NULL
VecArgs == {"x", "x0", "NULL"}

\* N_VGetArrayPointer(x): NULL for a vector without data
HasData(v) == v = "x"

\* the kernels' results during one setup call
Ks0 == [analyzeOk |-> TRUE, factorOk |-> TRUE, refactorOk |-> TRUE,
        rcondOk |-> TRUE, rcond |-> 0, condestOk |-> TRUE, condest |-> 0,
        solveOk |-> TRUE, allocOk |-> TRUE, garbageSparse |-> TRUE]

FirstOracles ==
  {Ks0, [Ks0 EXCEPT !.analyzeOk = FALSE], [Ks0 EXCEPT !.factorOk = FALSE]}

RefactorOracles ==
  {[Ks0 EXCEPT !.refactorOk = FALSE], [Ks0 EXCEPT !.rcondOk = FALSE]}
  \cup {[Ks0 EXCEPT !.rcond = r, !.condestOk = FALSE] : r \in Rconds}
  \cup {[Ks0 EXCEPT !.rcond = r, !.condest = c, !.factorOk = f] :
          r \in Rconds, c \in Condests, f \in BOOLEAN}

SetupOracles(s) ==
  IF s.first_factorize # 0 THEN FirstOracles ELSE RefactorOracles

\* the arguments of an API call
Arg0 == [S |-> "S", h |-> "A", vec |-> "x", reinit_type |-> 0, nnz |-> 0,
         ordering_choice |-> 0]

\* the number of calls of kernel fn in a sequence of kernel calls
RECURSIVE Count(_, _)
Count(kc, fn) ==
  IF kc = <<>> THEN 0
  ELSE (IF Head(kc).fn = fn THEN 1 ELSE 0) + Count(Tail(kc), fn)

---------------------------------------------------------------------------
(* SUNKLU: the state after construction *)

\* content->klu_solver: chosen from the sparse type of the matrix
SolverFor(sparsetype) ==
  IF sparsetype = CSC_MAT THEN "klu_solve" ELSE "klu_tsolve"

SUNKLU(M) ==
  [last_flag |-> 0,
   first_factorize |-> 1,
   klu_solver |-> SolverFor(M.sparsetype),
   symbolic |-> NULL,
   numeric |-> NULL,
   common |-> [ordering |-> SUNKLU_ORDERING_DEFAULT, rcond |-> 0, condest |-> 0]]

SparseMats(types) ==
  [live : {TRUE}, id : {SUNMATRIX_SPARSE}, sparsetype : types,
   nnz : {VecLen}, a : MatVals]

InitKLU ==
  /\ alive = TRUE
  /\ handle = "live"
  /\ A \in SparseMats({CSC_MAT, CSR_MAT})
  /\ S = SUNKLU(A)
  /\ heap = [i \in Slots |-> FreeObj]
  /\ x = ZeroVec
  /\ b = RhsVec
  /\ op = "SUNKLU"
  /\ arg = Arg0
  /\ ret = 0
  /\ kcalls = <<>>

---------------------------------------------------------------------------
(* SUNKLU: the call *)

\* the vector implementations N_VGetVectorID can report
NVectorIDs ==
  {"SUNDIALS_NVEC_SERIAL", "SUNDIALS_NVEC_OPENMP", "SUNDIALS_NVEC_PTHREADS",
   "SUNDIALS_NVEC_PARALLEL"}

\* the vectors the caller passes as y
Vectors == [id : NVectorIDs, length : 1..MaxRows]

\* the matrices the caller passes as A: M rows and N columns
CreateMats ==
  [live : {TRUE}, id : {SUNMATRIX_SPARSE, SUNMATRIX_DENSE},
   sparsetype : {CSC_MAT, CSR_MAT}, nnz : {VecLen}, a : MatVals,
   M : 1..MaxRows, N : 1..MaxRows]

\* what the call meets besides its arguments: which of the optional vector
\* implementations the library was built with, whether the pointers A and
\* y are NULL, and the results of the three allocations and of
\* sun_klu_defaults
Env0 ==
  [openmp |-> FALSE, pthreads |-> FALSE, nullA |-> FALSE, nullY |-> FALSE,
   SOk |-> TRUE, opsOk |-> TRUE, contentOk |-> TRUE, defaultsOk |-> TRUE]

CreateEnvs ==
  {[e EXCEPT !.openmp = o, !.pthreads = p] :
     o \in BOOLEAN, p \in BOOLEAN,
     e \in {Env0, [Env0 EXCEPT !.nullA = TRUE], [Env0 EXCEPT !.nullY = TRUE],
            [Env0 EXCEPT !.SOk = FALSE], [Env0 EXCEPT !.opsOk = FALSE],
            [Env0 EXCEPT !.contentOk = FALSE],
            [Env0 EXCEPT !.defaultsOk = FALSE]}}

\* the branches of the test on N_VGetVectorID(y) that the build contains
HasLength(id, e) ==
  \/ id = "SUNDIALS_NVEC_SERIAL"
  \/ (e.openmp /\ id = "SUNDIALS_NVEC_OPENMP")
  \/ (e.pthreads /\ id = "SUNDIALS_NVEC_PTHREADS")

\* malloc(...) with its result
Malloc(m, what, ok) == [m EXCEPT !.kc = Append(@, K(what, NULL, NULL, ok, 0))]

\* mutant: the length of the vector is not compared with the matrix
SUNKLUBody_NoLengthCheck(y, M, e) ==
  LET m0 == Machine(SUNKLU(M), [i \in Slots |-> FreeObj])
      m1 == Malloc(m0, "malloc_S", e.SOk)
      m2 == Malloc(m1, "malloc_ops", e.opsOk)
      m3 == Malloc(m2, "malloc_content", e.contentOk)
      m4 == [m3 EXCEPT !.kc = Append(@, K("klu_defaults", NULL, NULL,
                                            e.defaultsOk, 0))]
      Null(m) == [m |-> m, ret |-> "NULL", crash |-> FALSE]
      Released(m, ps) ==
        [m EXCEPT !.kc = @ \o [i \in 1..Len(ps) |->
                                 K(ps[i], NULL, NULL, TRUE, 0)]]
  IN IF e.nullA THEN [m |-> m0, ret |-> "NULL", crash |-> TRUE]
     ELSE IF M.id # SUNMATRIX_SPARSE THEN Null(m0)
     ELSE IF e.nullY THEN [m |-> m0, ret |-> "NULL", crash |-> TRUE]
     ELSE IF ~HasLength(y.id, e) THEN Null(m0)
     ELSE IF M.M # M.N THEN Null(m0)
     ELSE IF ~e.SOk THEN Null(m1)
     ELSE IF ~e.opsOk THEN Null(Released(m2, <<"free_S">>))
     ELSE IF ~e.contentOk THEN Null(Released(m3, <<"free_ops", "free_S">>))
     ELSE IF ~e.defaultsOk
     THEN Null(Released(m4, <<"free_content", "free_ops", "free_S">>))
     ELSE [m |-> m4, ret |-> "S", crash |-> FALSE]

\* the result of SUNKLU(y, A): the machine with the content of the new
\* solver, the pointer returned ("S" or "NULL"), and whether the call read
\* through a NULL pointer (SUNMatGetID(A) and N_VGetVectorID(y) do so
\* without a test), which ends the process
SUNKLUBody(y, M, e) ==
  LET m0 == Machine(SUNKLU(M), [i \in Slots |-> FreeObj])
      m1 == Malloc(m0, "malloc_S", e.SOk)
      m2 == Malloc(m1, "malloc_ops", e.opsOk)
      m3 == Malloc(m2, "malloc_content", e.contentOk)
      m4 == [m3 EXCEPT !.kc = Append(@, K("klu_defaults", NULL, NULL,
                                            e.defaultsOk, 0))]
      Null(m) == [m |-> m, ret |-> "NULL", crash |-> FALSE]
      Released(m, ps) ==
        [m EXCEPT !.kc = @ \o [i \in 1..Len(ps) |->
                                 K(ps[i], NULL, NULL, TRUE, 0)]]
  IN IF e.nullA THEN [m |-> m0, ret |-> "NULL", crash |-> TRUE]
     ELSE IF M.id # SUNMATRIX_SPARSE THEN Null(m0)
     ELSE IF e.nullY THEN [m |-> m0, ret |-> "NULL", crash |-> TRUE]
     ELSE IF ~HasLength(y.id, e) THEN Null(m0)
     ELSE IF (M.M # M.N) \/ (M.M # y.length) THEN Null(m0)
     ELSE IF ~e.SOk THEN Null(m1)
     ELSE IF ~e.opsOk THEN Null(Released(m2, <<"free_S">>))
     ELSE IF ~e.contentOk THEN Null(Released(m3, <<"free_ops", "free_S">>))
     ELSE IF ~e.defaultsOk
     THEN Null(Released(m4, <<"free_content", "free_ops", "free_S">>))
     ELSE [m |-> m4, ret |-> "S", crash |-> FALSE]

\* the matrix as the solver and its later calls see it
AsSparse(M) ==
  [live |-> M.live, id |-> M.id, sparsetype |-> M.sparsetype, nnz |-> M.nnz,
   a |-> M.a]

\* The call of SUNKLU, made once by a program that has no solver yet, with
\* the arguments arg holds; the model keeps the solver it returned, with the
\* matrix it was made for.  ret is 1 for a solver and 0 for NULL.
SUNKLU_Call ==
  /\ alive
  /\ op = "main"
  /\ \E y \in {arg.y}, M \in {arg.M}, e \in {arg.e} :
       LET r == SUNKLUBody(y, M, e) IN
       /\ alive' = ~r.crash
       /\ handle' = IF r.crash THEN "NULL" ELSE IF r.ret = "S" THEN "live"
                    ELSE "NULL"
       /\ A' = IF r.ret = "S" /\ ~r.crash THEN AsSparse(M) ELSE A
       /\ S' = IF r.ret = "S" /\ ~r.crash THEN r.m.S ELSE SUNKLU(A)
       /\ heap' = [i \in Slots |-> FreeObj]
       /\ kcalls' = IF r.crash THEN <<>> ELSE r.m.kc
       /\ ret' = IF r.ret = "S" /\ ~r.crash THEN 1 ELSE 0
       /\ op' = "SUNKLU"
       /\ arg' = [y |-> y, M |-> M, e |-> e]
       /\ x' = ZeroVec
  /\ UNCHANGED <<b, bandvars, spils>>

---------------------------------------------------------------------------
(* SUNLinSolInitialize_KLU *)

\* mutant: the re-use flag is not reset
InitializeBody_NoReset(m) == Return(m, SUNLS_SUCCESS)

InitializeBody(m) ==
  Return([m EXCEPT !.S.first_factorize = 1], SUNLS_SUCCESS)

\* what every completed call leaves in the state
Finish(name, a, r) ==
  /\ S' = r.m.S
  /\ heap' = r.m.heap
  /\ kcalls' = r.m.kc
  /\ ret' = r.ret
  /\ op' = name
  /\ arg' = a
  /\ UNCHANGED <<bandvars, spils>>

SUNLinSolInitialize_KLU ==
  /\ alive
  /\ handle = "live"
  /\ Finish("Initialize", Arg0, InitializeBody(Machine(S, heap)))
  /\ UNCHANGED <<alive, handle, A, x, b>>

---------------------------------------------------------------------------
(* SUNLinSolSetup_KLU *)

\* mutant: every setup is treated as the first
IsFirstFactorize_Always(m) == TRUE

\* if (FIRSTFACTORIZE(S))
IsFirstFactorize(m) == m.S.first_factorize # 0

\* the analysis returned NULL
OnAnalyzeFailure(m) == Return(m, SUNLS_PACKAGE_FAIL_UNREC)

\* mutant: the flag is cleared before the result of the factorization is
\* looked at
OnFactorFailure_ClearsFlag(m) ==
  Return([m EXCEPT !.S.first_factorize = 0], SUNLS_PACKAGE_FAIL_UNREC)

\* the numeric factorization returned NULL
OnFactorFailure(m) == Return(m, SUNLS_PACKAGE_FAIL_UNREC)

\* both steps succeeded: FIRSTFACTORIZE(S) = 0, then the common exit
OnFirstSuccess(m) == Return([m EXCEPT !.S.first_factorize = 0], SUNLS_SUCCESS)

\* mutant: the numeric factorization of an earlier setup is not freed
\* before the new one is stored
SetupFirst_KeepsOldNumeric(m, M, ks) ==
  LET m1 == IF m.S.symbolic # NULL THEN sun_klu_free_symbolic(m) ELSE m
      m2 == sun_klu_analyze(m1, M, ks.analyzeOk)
      m4 == sun_klu_factor(m2, M, ks.factorOk)
  IN IF m2.S.symbolic = NULL THEN OnAnalyzeFailure(m2)
     ELSE IF m4.S.numeric = NULL THEN OnFactorFailure(m4)
     ELSE OnFirstSuccess(m4)

\* the first decomposition: symbolic analysis, then numeric factorization
SetupFirst(m, M, ks) ==
  LET m1 == IF m.S.symbolic # NULL THEN sun_klu_free_symbolic(m) ELSE m
      m2 == sun_klu_analyze(m1, M, ks.analyzeOk)
      m3 == IF m2.S.numeric # NULL THEN sun_klu_free_numeric(m2) ELSE m2
      m4 == sun_klu_factor(m3, M, ks.factorOk)
  IN IF m2.S.symbolic = NULL THEN OnAnalyzeFailure(m2)
     ELSE IF m4.S.numeric = NULL THEN OnFactorFailure(m4)
     ELSE OnFirstSuccess(m4)

\* mutant: a failed re-factorization falls back to the full factorization
OnRefactorFailure_Fallback(m, M, ks) == SetupFirst(m, M, ks)

\* mutant: a failed re-factorization is reported as unrecoverable
OnRefactorFailure_Unrec(m, M, ks) == Return(m, SUNLS_PACKAGE_FAIL_UNREC)

\* if (retval == 0) after sun_klu_refactor
OnRefactorFailure(m, M, ks) == Return(m, SUNLS_PACKAGE_FAIL_REC)

\* mutant: an estimate equal to the threshold counts as too small
RcondTooSmall_AtThreshold(m) == m.S.common.rcond <= uround_twothirds

\* if ( COMMON(S).rcond < uround_twothirds )
RcondTooSmall(m) == m.S.common.rcond < uround_twothirds

\* mutant: an estimate equal to the threshold counts as too large
CondestTooLarge_AtThreshold(m) == m.S.common.condest >= inv_uround_twothirds

\* if ( COMMON(S).condest > (ONE/uround_twothirds) )
CondestTooLarge(m) == m.S.common.condest > inv_uround_twothirds

\* delete the numeric factorization and recompute it
Recompute(m, M, ks) ==
  LET m1 == sun_klu_free_numeric(m)
      m2 == sun_klu_factor(m1, M, ks.factorOk)
  IN IF m2.S.numeric = NULL THEN Return(m2, SUNLS_PACKAGE_FAIL_UNREC)
     ELSE Return(m2, SUNLS_SUCCESS)

\* the condition check that follows a successful re-factorization
CheckCondition(m, M, ks) ==
  LET m1 == sun_klu_rcond(m, ks.rcondOk, ks.rcond)
      m2 == sun_klu_condest(m1, ks.condestOk, ks.condest)
  IN IF ~ks.rcondOk THEN Return(m1, SUNLS_PACKAGE_FAIL_REC)
     ELSE IF RcondTooSmall(m1)
          THEN IF ~ks.condestOk THEN Return(m2, SUNLS_PACKAGE_FAIL_REC)
               ELSE IF CondestTooLarge(m2) THEN Recompute(m2, M, ks)
               ELSE Return(m2, SUNLS_SUCCESS)
     ELSE Return(m1, SUNLS_SUCCESS)

\* not the first decomposition, so just refactor
SetupRefactor(m, M, ks) ==
  LET m1 == sun_klu_refactor(m, M, ks.refactorOk)
  IN IF ~RefactorSucceeds(m, ks.refactorOk) THEN OnRefactorFailure(m1, M, ks)
     ELSE CheckCondition(m1, M, ks)

\* SUNMatGetID(A) == SUNMATRIX_SPARSE; reading a destroyed matrix yields
\* whatever the freed memory holds
SeenSparse(M, garbage) ==
  IF M.live THEN M.id = SUNMATRIX_SPARSE ELSE garbage

SetupBody(m, M, ks) ==
  IF ~SeenSparse(M, ks.garbageSparse) THEN Return(m, SUNLS_ILL_INPUT)
  ELSE IF IsFirstFactorize(m) THEN SetupFirst(m, M, ks)
  ELSE SetupRefactor(m, M, ks)

\* the kernel results that matter for a setup on matrix M
SetupOracleSet(M) ==
  IF ~M.live THEN SetupOracles(S) \cup {[Ks0 EXCEPT !.garbageSparse = FALSE]}
  ELSE IF M.id = SUNMATRIX_SPARSE THEN SetupOracles(S)
  ELSE {Ks0}

SUNLinSolSetup_KLU ==
  /\ alive
  /\ handle = "live"
  /\ \E h \in {"A", "D"} :
       \E ks \in SetupOracleSet(Deref(h)) :
         Finish("Setup", [Arg0 EXCEPT !.h = h],
                SetupBody(Machine(S, heap), Deref(h), ks))
  /\ UNCHANGED <<alive, handle, A, x, b>>

\* The matrix was destroyed: reading it is undefined, and may end the
\* process.  Nothing of the state is left then.
UseAfterFree(name) ==
  /\ alive
  /\ handle = "live"
  /\ ~A.live
  /\ alive' = FALSE
  /\ op' = name
  /\ arg' = Arg0
  /\ ret' = 0
  /\ kcalls' = <<>>
  /\ x' = ZeroVec
  /\ heap' = [i \in Slots |-> FreeObj]
  /\ S' = SUNKLU(A)
  /\ UNCHANGED <<A, b, handle, bandvars, spils>>

SetupCrash == UseAfterFree("SetupCrash")

---------------------------------------------------------------------------
(* SUNKLUReInit *)

\* mutant: the numeric factorization is kept
ReInitFree_KeepsNumeric(m) ==
  LET m1 == IF m.S.symbolic # NULL THEN sun_klu_free_symbolic(m) ELSE m
  IN Return([m1 EXCEPT !.S.first_factorize = 1], SUNLS_SUCCESS)

\* Free the prior factorization and reset for first factorization
ReInitFree(m) ==
  LET m1 == IF m.S.symbolic # NULL THEN sun_klu_free_symbolic(m) ELSE m
      m2 == IF m1.S.numeric # NULL THEN sun_klu_free_numeric(m1) ELSE m1
  IN Return([m2 EXCEPT !.S.first_factorize = 1], SUNLS_SUCCESS)

\* mutant: the prior factorization is freed before the new matrix is
\* allocated
ReInitBody_FreesFirst(m, a, M, ks) ==
  IF a.S = "NULL" \/ a.h = "NULL"
  THEN [m |-> m, ret |-> SUNLS_MEM_NULL, destroyed |-> FALSE]
  ELSE IF ~SeenSparse(M, ks.garbageSparse)
  THEN [m |-> m, ret |-> SUNLS_ILL_INPUT, destroyed |-> FALSE]
  ELSE IF a.reinit_type # 1 /\ a.reinit_type # 2
  THEN [m |-> m, ret |-> SUNLS_ILL_INPUT, destroyed |-> FALSE]
  ELSE IF a.reinit_type = 1 /\ ~ks.allocOk
  THEN [m |-> [ReInitFree(m).m EXCEPT !.S.last_flag = m.S.last_flag],
        ret |-> SUNLS_MEM_FAIL, destroyed |-> TRUE]
  ELSE [m |-> ReInitFree(m).m, ret |-> ReInitFree(m).ret,
        destroyed |-> (a.reinit_type = 1)]

\* the result of SUNKLUReInit: the machine, the return value and whether
\* SUNMatDestroy(A) ran
ReInitBody(m, a, M, ks) ==
  IF a.S = "NULL" \/ a.h = "NULL"
  THEN [m |-> m, ret |-> SUNLS_MEM_NULL, destroyed |-> FALSE]
  ELSE IF ~SeenSparse(M, ks.garbageSparse)
  THEN [m |-> m, ret |-> SUNLS_ILL_INPUT, destroyed |-> FALSE]
  ELSE IF a.reinit_type # 1 /\ a.reinit_type # 2
  THEN [m |-> m, ret |-> SUNLS_ILL_INPUT, destroyed |-> FALSE]
  ELSE IF a.reinit_type = 1 /\ ~ks.allocOk
  THEN [m |-> m, ret |-> SUNLS_MEM_FAIL, destroyed |-> TRUE]
  ELSE [m |-> ReInitFree(m).m, ret |-> ReInitFree(m).ret,
        destroyed |-> (a.reinit_type = 1)]

ReinitTypes == 0..3

\* the argument lists the caller passes: the valid ones, and each kind of
\* invalid argument
ReInitArgs ==
  {[Arg0 EXCEPT !.reinit_type = t, !.nnz = VecLen] : t \in ReinitTypes}
  \cup {[Arg0 EXCEPT !.S = "NULL", !.reinit_type = 1, !.nnz = VecLen],
        [Arg0 EXCEPT !.h = "NULL", !.reinit_type = 1, !.nnz = VecLen],
        [Arg0 EXCEPT !.h = "D", !.reinit_type = 1, !.nnz = VecLen]}

\* the results that matter for a reinit with arguments a on matrix M
ReInitOracles(a, M) ==
  {[Ks0 EXCEPT !.allocOk = o, !.garbageSparse = g] :
     o \in (IF a.reinit_type = 1 /\ a.S = "S" /\ a.h = "A" THEN BOOLEAN
            ELSE {TRUE}),
     g \in (IF M.live THEN {TRUE} ELSE BOOLEAN)}

SUNKLUReInit ==
  /\ alive
  /\ handle = "live"
  /\ \E a \in ReInitArgs :
       \E ks \in ReInitOracles(a, Deref(a.h)) :
         LET r == ReInitBody(Machine(S, heap), a, Deref(a.h), ks) IN
         /\ Finish("ReInit", a, r)
         /\ A' = IF r.destroyed /\ a.h = "A" THEN [A EXCEPT !.live = FALSE]
                 ELSE A
  /\ UNCHANGED <<alive, handle, x, b>>

ReInitCrash == UseAfterFree("ReInitCrash")

---------------------------------------------------------------------------
(* SUNKLUSetOrdering *)

\* mutant: the choice is accepted but not stored
SetOrderingBody_NotStored(m, a) ==
  IF a.ordering_choice < 0 \/ a.ordering_choice > 2
  THEN [m |-> m, ret |-> SUNLS_ILL_INPUT]
  ELSE IF a.S = "NULL" THEN [m |-> m, ret |-> SUNLS_MEM_NULL]
  ELSE Return(m, SUNLS_SUCCESS)

SetOrderingBody(m, a) ==
  IF a.ordering_choice < 0 \/ a.ordering_choice > 2
  THEN [m |-> m, ret |-> SUNLS_ILL_INPUT]
  ELSE IF a.S = "NULL" THEN [m |-> m, ret |-> SUNLS_MEM_NULL]
  ELSE Return([m EXCEPT !.S.common.ordering = a.ordering_choice],
              SUNLS_SUCCESS)

\* the argument lists the caller passes: the choice below the legal ones,
\* a legal choice other than the default, the choice above the legal ones,
\* and a NULL solver
SetOrderingArgs ==
  {[Arg0 EXCEPT !.ordering_choice = c] : c \in {-1, 0, 3}}
  \cup {[Arg0 EXCEPT !.S = "NULL", !.ordering_choice = 0]}

SUNKLUSetOrdering ==
  /\ alive
  /\ handle = "live"
  /\ \E a \in SetOrderingArgs :
       Finish("SetOrdering", a, SetOrderingBody(Machine(S, heap), a))
  /\ UNCHANGED <<alive, handle, A, x, b>>

---------------------------------------------------------------------------
(* SUNLinSolSolve_KLU *)

\* the triangular solves with the factors of the diagonal matrix a*I
KluSolve(obj, xdata) == [i \in 1..VecLen |-> xdata[i] \div obj.a]

\* whether the solve kernel returns nonzero: never with a NULL handle
SolveSucceeds(m, ok) == ok /\ m.S.symbolic # NULL /\ m.S.numeric # NULL

\* mutant: b is not copied, the kernel runs on what x held
CopyRhs_Skip(xv, bv) == xv

\* N_VScale(ONE, b, x)
CopyRhs(xv, bv) == bv

\* flag = SOLVE(S)(SYMBOLIC(S), NUMERIC(S), NP, 1, xdata, &COMMON(S))
SolveKernel(m, xdata, ok) ==
  [m |-> [m EXCEPT !.kc = Append(@, K(m.S.klu_solver, m.S.symbolic,
                                      m.S.numeric, SolveSucceeds(m, ok), 0))],
   x |-> IF SolveSucceeds(m, ok) THEN KluSolve(m.heap[m.S.numeric], xdata)
         ELSE xdata]

\* the result of SUNLinSolSolve_KLU: the machine, the return value and the
\* contents of x and b afterwards
SolveBody(m, a, xv, bv, ks) ==
  IF a.h = "NULL" \/ a.S = "NULL" \/ a.vec = "NULL"
  THEN [m |-> m, ret |-> SUNLS_MEM_NULL, x |-> xv, b |-> bv]
  ELSE IF ~HasData(a.vec)
  THEN [m |-> Return(m, SUNLS_MEM_FAIL).m, ret |-> SUNLS_MEM_FAIL,
        x |-> xv, b |-> bv]
  ELSE LET k == SolveKernel(m, CopyRhs(xv, bv), ks.solveOk) IN
       IF ~SolveSucceeds(m, ks.solveOk)
       THEN [m |-> Return(k.m, SUNLS_PACKAGE_FAIL_REC).m,
             ret |-> SUNLS_PACKAGE_FAIL_REC, x |-> k.x, b |-> bv]
       ELSE [m |-> Return(k.m, SUNLS_SUCCESS).m, ret |-> SUNLS_SUCCESS,
             x |-> k.x, b |-> bv]

SolveArgs ==
  {[Arg0 EXCEPT !.vec = v] : v \in VecArgs}
  \cup {[Arg0 EXCEPT !.S = "NULL"], [Arg0 EXCEPT !.h = "NULL"]}

SolveOracles == {[Ks0 EXCEPT !.solveOk = ok] : ok \in BOOLEAN}

SUNLinSolSolve_KLU ==
  /\ alive
  /\ handle = "live"
  /\ \E a \in SolveArgs, ks \in SolveOracles :
       LET r == SolveBody(Machine(S, heap), a, x, b, ks)
       IN /\ Finish("Solve", a, r)
          /\ x' = r.x
          /\ b' = r.b
  /\ UNCHANGED <<alive, handle, A>>

SolveCrash == UseAfterFree("SolveCrash")

---------------------------------------------------------------------------
(* The setters a direct solver does not support, and the introspection *)

SUNLINEARSOLVER_DIRECT == 0

\* return(SUNLINEARSOLVER_DIRECT);
GetTypeBody(m) == [m |-> m, ret |-> SUNLINEARSOLVER_DIRECT]

SUNLinSolGetType_KLU ==
  /\ alive
  /\ handle = "live"
  /\ Finish("GetType", Arg0, GetTypeBody(Machine(S, heap)))
  /\ UNCHANGED <<alive, handle, A, x, b>>

\* mutant: the setter accepts the routines
UnsupportedBody_Accepts(m) == Return(m, SUNLS_SUCCESS)

\* LASTFLAG(S) = SUNLS_ILL_INPUT; return(LASTFLAG(S));
UnsupportedBody(m) == Return(m, SUNLS_ILL_INPUT)

Unsupported(name) ==
  /\ alive
  /\ handle = "live"
  /\ Finish(name, Arg0, UnsupportedBody(Machine(S, heap)))
  /\ UNCHANGED <<alive, handle, A, x, b>>

SUNLinSolSetATimes_KLU == Unsupported("SetATimes")

SUNLinSolSetPreconditioner_KLU == Unsupported("SetPreconditioner")

SUNLinSolSetScalingVectors_KLU == Unsupported("SetScalingVectors")

\* return(0); and return(ZERO);
ZeroBody(m) == [m |-> m, ret |-> 0]

Introspect(name, r) ==
  /\ alive
  /\ handle = "live"
  /\ Finish(name, Arg0, r)
  /\ UNCHANGED <<alive, handle, A, x, b>>

SUNLinSolNumIters_KLU == Introspect("NumIters", ZeroBody(Machine(S, heap)))

SUNLinSolResNorm_KLU == Introspect("ResNorm", ZeroBody(Machine(S, heap)))

SUNLinSolNumPSolves_KLU == Introspect("NumPSolves", ZeroBody(Machine(S, heap)))

\* mutant: reading the flag clears it
LastFlagBody_Clears(m) ==
  [m |-> [m EXCEPT !.S.last_flag = SUNLS_SUCCESS], ret |-> m.S.last_flag]

\* return(LASTFLAG(S));
LastFlagBody(m) == [m |-> m, ret |-> m.S.last_flag]

SUNLinSolLastFlag_KLU == Introspect("LastFlag", LastFlagBody(Machine(S, heap)))

---------------------------------------------------------------------------
(* SUNLinSolFree_KLU *)

\* free(p): recorded with whether p was a live block
Free(m, what, wasLive) ==
  [m EXCEPT !.kc = Append(@, K(what, NULL, NULL, wasLive, 0))]

\* delete items from the contents structure
FreeContent(m) ==
  LET m1 == IF m.S.numeric # NULL THEN sun_klu_free_numeric(m) ELSE m
      m2 == IF m1.S.symbolic # NULL THEN sun_klu_free_symbolic(m1) ELSE m1
  IN Free(m2, "free_content", TRUE)

\* the result of SUNLinSolFree_KLU on a live handle or on NULL: the
\* machine, the return value and whether the solver object was released
FreeBody(m, a) ==
  IF a.S = "NULL" THEN [m |-> m, ret |-> SUNLS_SUCCESS, freed |-> FALSE]
  ELSE [m |-> Free(Free(FreeContent(m), "free_ops", TRUE), "free_S", TRUE),
        ret |-> SUNLS_SUCCESS, freed |-> TRUE]

\* SUNLinSolFree_KLU on a handle it has already released.  S is a dangling
\* pointer (the function only clears its own copy of it): S->content and
\* S->ops are read from the released block, where they were last written as
\* NULL, and free(S) releases the block a second time.
FreeAgainBody(m) ==
  [m |-> Free(m, "free_S", FALSE), ret |-> SUNLS_SUCCESS, freed |-> TRUE]

SUNLinSolFree_KLU ==
  /\ alive
  /\ \E s \in {"S", "NULL"} :
       LET a == [Arg0 EXCEPT !.S = s]
           r == IF s = "NULL" \/ handle = "live"
                THEN FreeBody(Machine(S, heap), a)
                ELSE FreeAgainBody(Machine(S, heap))
       IN /\ heap' = r.m.heap
          /\ kcalls' = r.m.kc
          /\ ret' = r.ret
          /\ op' = "Free"
          /\ arg' = a
          /\ handle' = IF r.freed THEN "freed" ELSE handle
          \* a released content holds nothing
          /\ S' = IF r.freed THEN SUNKLU(A) ELSE S
  /\ UNCHANGED <<alive, A, x, b, bandvars, spils>>

\* Any call on a released solver handle reads released memory: it is
\* undefined, and may end the process.
SolverUseAfterFree(name) ==
  /\ alive
  /\ handle = "freed"
  /\ alive' = FALSE
  /\ op' = name
  /\ arg' = Arg0
  /\ ret' = 0
  /\ kcalls' = <<>>
  /\ x' = ZeroVec
  /\ UNCHANGED <<A, b, handle, S, heap, bandvars, spils>>

\* the second free ends the process
FreeCrash == SolverUseAfterFree("FreeCrash")

\* any other call on the released handle ends the process
FreedSolverCrash == SolverUseAfterFree("FreedSolverCrash")

---------------------------------------------------------------------------
(* The caller *)

\* the caller builds a new sparse matrix (or new entries) behind its handle
CallerNewMatrix ==
  /\ alive
  /\ A' \in SparseMats({A.sparsetype}) \ {A}
  /\ op' = "NewMatrix"
  /\ arg' = Arg0
  /\ ret' = 0
  /\ kcalls' = <<>>
  /\ UNCHANGED <<alive, handle, S, heap, x, b, bandvars, spils>>


---------------------------------------------------------------------------
(* The KINBAND linear solver (src/kinsol/source/kinsol_band.c)             *)
(*                                                                         *)
(* kin_mem is the KINSOL memory, as far as the band solver touches it;     *)
(* kin_mem.lmem is "NULL", "live" (it points to the band memory            *)
(* kinband_mem) or "freed" (it points to a released block).  Each action   *)
(* is one whole call; kcalls records what the call did: the blocks it      *)
(* allocated and released, and, for a setup, one record per column group   *)
(* of the difference quotient Jacobian.                                    *)

\* Bounds: KINBand is called with the dimensions 0..MaxN and with
\* half-bandwidths from -1 up to MaxHalfWidth; the Jacobian is built for
\* the dimensions 1..MaxJacN; at most MaxSetups setups between two
\* initializations
MaxN == 2
MaxHalfWidth == 2
MaxJacN == 10
MaxSetups == 2

KINBAND_SUCCESS == 0
KINBAND_MEM_NULL == -1
KINBAND_LMEM_NULL == -2
KINBAND_ILL_INPUT == -3
KINBAND_MEM_FAIL == -4

MIN(p, q) == IF p < q THEN p ELSE q
MAX(p, q) == IF p > q THEN p ELSE q
ABS(p) == IF p < 0 THEN -p ELSE p

\* realtype values: a finite value, or what IEEE arithmetic gives for
\* ONE/ZERO and the products formed with it (an infinity or a NaN)
Real(v) == [fin |-> TRUE, v |-> v]
NonFinite == [fin |-> FALSE, v |-> 0]

\* the KINSOL memory before any linear solver is attached
KINCreate ==
  [lfree |-> "NULL", lsetup |-> "NULL", lmem |-> "NULL",
   setupNonNull |-> FALSE, inexact_ls |-> FALSE]

\* vectors and matrices are indexed from 0, as in the code
Idx(n) == 0..(n - 1)

BandZero(n) == [i \in Idx(n) |-> [j \in Idx(n) |-> Real(0)]]

\* no band memory: what kinband_mem holds while lmem is not "live".  Of
\* the band matrix J the memory keeps the state only: "allocated", or what
\* BandFactor left in it ("factored", or "singular" after a zero pivot).
NoBandMem ==
  [n |-> 0, mu |-> 0, ml |-> 0, storage_mu |-> 0, jac |-> "NULL",
   J_data |-> "NULL", last_flag |-> 0, initialized |-> FALSE, nje |-> 0,
   nfeB |-> 0, J |-> "none"]

InitBand ==
  /\ kin_mem = KINCreate
  /\ kinband_mem = NoBandMem

\* The machine threaded through one call of the band solver: the KINSOL
\* memory, the band memory, the entries of the band matrix while the call
\* assembles it, what the call did so far, and whether it ran into
\* undefined behaviour that ended the process.
BandMachine(k, m) ==
  [kin |-> k, mem |-> m, J |-> BandZero(0), kc |-> <<>>, crash |-> FALSE]

\* one allocation or release: ok says whether the allocation succeeded, or
\* whether the released block was live
Ev(fn, what, ok) == [fn |-> fn, what |-> what, ok |-> ok]

Did(bm, e) == [bm EXCEPT !.kc = Append(@, e)]

---------------------------------------------------------------------------
(* KINBandFree *)

\* BandFreeMat(J); BandFreePiv(pivots); free(kinband_mem), where
\* kinband_mem is read from lmem.  lmem itself is left as it is.  With lmem
\* NULL the read of b_J is a null dereference; with lmem already released
\* the blocks are released a second time, which the allocator may detect
\* (abort) or not.
KINBandFreeBody(bm, abort) ==
  IF bm.kin.lmem = "NULL" THEN [bm EXCEPT !.crash = TRUE]
  ELSE IF bm.kin.lmem = "freed"
  THEN IF abort THEN [bm EXCEPT !.crash = TRUE]
       ELSE Did(Did(Did(bm, Ev("free", "J", FALSE)),
                    Ev("free", "pivots", FALSE)),
                Ev("free", "kinband_mem", FALSE))
  ELSE [Did(Did(Did(bm, Ev("free", "J", TRUE)), Ev("free", "pivots", TRUE)),
            Ev("free", "kinband_mem", TRUE))
          EXCEPT !.kin.lmem = "freed", !.mem = NoBandMem]

---------------------------------------------------------------------------
(* KINBand *)

\* the arguments of KINBand, and the results of its allocations
BandArg0 ==
  [kinmem |-> "kin_mem", N |-> 0, mupper |-> 0, mlower |-> 0,
   compatible |-> TRUE, memOk |-> TRUE, JOk |-> TRUE, pivotsOk |-> TRUE,
   abort |-> FALSE]

\* mutant: a half-bandwidth equal to N passes the test
IllegalSizes_AllowsN(N, mupper, mlower) ==
  (mlower < 0) \/ (mupper < 0) \/ (mlower > N) \/ (mupper > N)

\* Test ml and mu for legality
IllegalSizes(N, mupper, mlower) ==
  (mlower < 0) \/ (mupper < 0) \/ (mlower >= N) \/ (mupper >= N)

\* Set extended upper half-bandwith for M (required for pivoting)
StorageMu(N, mupper, mlower) == MIN(N - 1, mupper + mlower)

\* what a counter holds between malloc and its first assignment
Unassigned == -1

\* the band memory as KINBand fills it in: the counters nje and nfeB are
\* not assigned
NewBandMem(a) ==
  [n |-> a.N, mu |-> a.mupper, ml |-> a.mlower,
   storage_mu |-> StorageMu(a.N, a.mupper, a.mlower),
   jac |-> "KINBandDQJac", J_data |-> "kin_mem",
   last_flag |-> KINBAND_SUCCESS, initialized |-> FALSE, nje |-> Unassigned,
   nfeB |-> Unassigned, J |-> "allocated"]

\* KINBand from the allocation of the band memory on; bm is the machine
\* after the old lfree ran and the four function fields were set
KINBandAttach(bm, a) ==
  LET m1 == Did(bm, Ev("malloc", "kinband_mem", a.memOk))
      m2 == [m1 EXCEPT !.kin.setupNonNull = TRUE]
      m3 == Did(m2, Ev("malloc", "J", a.JOk))
      m4 == Did(m3, Ev("malloc", "pivots", a.pivotsOk))
  IN IF ~a.memOk THEN [m |-> m1, ret |-> KINBAND_MEM_FAIL]
     ELSE IF IllegalSizes(a.N, a.mupper, a.mlower)
     THEN [m |-> m2, ret |-> KINBAND_ILL_INPUT]
     ELSE IF ~a.JOk THEN [m |-> m3, ret |-> KINBAND_MEM_FAIL]
     ELSE IF ~a.pivotsOk
     THEN [m |-> Did(m4, Ev("free", "J", TRUE)), ret |-> KINBAND_MEM_FAIL]
     ELSE [m |-> [m4 EXCEPT !.kin.inexact_ls = FALSE, !.kin.lmem = "live",
                            !.mem = NewBandMem(a)],
           ret |-> KINBAND_SUCCESS]

KINBandBody(bm, a) ==
  IF a.kinmem = "NULL" THEN [m |-> bm, ret |-> KINBAND_MEM_NULL]
  ELSE IF ~a.compatible THEN [m |-> bm, ret |-> KINBAND_ILL_INPUT]
  ELSE LET m1 == IF bm.kin.lfree # "NULL" THEN KINBandFreeBody(bm, a.abort)
                 ELSE bm
           m2 == [m1 EXCEPT !.kin.lsetup = "KINBandSetup",
                            !.kin.lfree = "KINBandFree"]
       IN IF m1.crash THEN [m |-> m1, ret |-> 0]
          ELSE KINBandAttach(m2, a)

---------------------------------------------------------------------------
(* KINBandDQJac *)

\* Reals are kept on a grid of which sqrt_relfunc is the unit
sqrt_relfunc == 1

\* mutant: the bandwidth without the lower half
Width_UpperOnly(mupper, mlower) == mupper + 1

\* width = mlower + mupper + 1
Width(mupper, mlower) == mlower + mupper + 1

\* mutant: one group per column
NGroups_PerColumn(n, mupper, mlower) == n

\* ngroups = MIN(width, n)
NGroups(n, mupper, mlower) == MIN(Width(mupper, mlower), n)

\* for (j = group-1; j < n; j += width): the columns of a group
Cols(group, n, width) ==
  {j \in Idx(n) : j >= group - 1 /\ (j - (group - 1)) % width = 0}

\* mutant: the two half-bandwidths exchanged
Rows_Swapped(j, n, mupper, mlower) == MAX(0, j - mlower)..MIN(j + mupper, n - 1)

\* i1 = MAX(0, j-mupper); i2 = MIN(j+mlower, n-1): the rows of column j
Rows(j, n, mupper, mlower) == MAX(0, j - mupper)..MIN(j + mlower, n - 1)

\* inc = sqrt_relfunc*MAX(ABS(u_data[j]), ABS(uscale_data[j]))
Inc(u, uscale, j) == sqrt_relfunc * MAX(ABS(u[j]), ABS(uscale[j]))

\* inc_inv * (futemp_data[i] - fu_data[i]) with inc_inv = ONE/inc
Quot(inc, d) == IF inc = 0 THEN NonFinite ELSE Real(d \div inc)

\* The system function func of the caller: a linear function whose
\* Jacobian Coef fills the band of the solver.
Coef(i, j) == 1 + ((i + 2 * j) % 3)

\* row i of the product, summed over the columns j of its band
RECURSIVE RowSum(_, _, _, _)
RowSum(e, v, i, j) ==
  IF j > MIN(e.n - 1, i + e.mupper) THEN 0
  ELSE Coef(i, j) * v[j] + RowSum(e, v, i, j + 1)

func(e, v) == [i \in Idx(e.n) |-> RowSum(e, v, i, MAX(0, i - e.mlower))]

\* the status the system function returns in the call made for a group
FuncStatus(e, group) == IF e.ffail.at = group THEN e.ffail.status ELSE 0

\* mutant: the perturbed entries are not restored
Restore_Skip(utemp, u, cols) == utemp

\* utemp_data[j] = u_data[j] for the columns of the group
Restore(utemp, u, cols) ==
  [j \in DOMAIN utemp |-> IF j \in cols THEN u[j] ELSE utemp[j]]

\* One pass of the loop over the groups.  st holds utemp, futemp, J, the
\* inputs u and fu, and the records of the groups done so far.
DQGroup(st, e, group) ==
  LET cols == Cols(group, e.n, Width(e.mupper, e.mlower))
      inc == [j \in cols |-> Inc(st.u, e.uscale, j)]
      up == [j \in Idx(e.n) |->
               IF j \in cols THEN st.utemp[j] + inc[j] ELSE st.utemp[j]]
      status == FuncStatus(e, group)
      fut == IF status = 0 THEN func(e, up) ELSE st.futemp
      written == {<<i, j>> \in Idx(e.n) \X cols :
                    i \in Rows(j, e.n, e.mupper, e.mlower)}
      Jn == [i \in Idx(e.n) |-> [j \in Idx(e.n) |->
               IF j \in cols /\ i \in Rows(j, e.n, e.mupper, e.mlower)
               THEN Quot(inc[j], fut[i] - st.fu[i])
               ELSE st.J[i][j]]]
  IN [st EXCEPT
        !.utemp = Restore(up, st.u, cols),
        !.futemp = fut,
        !.J = Jn,
        !.kc = Append(@, [fn |-> "group", group |-> group,
                          utemp0 |-> st.utemp, cols |-> cols, inc |-> inc,
                          utempEval |-> up, status |-> status,
                          written |-> written,
                          u |-> st.u, fu |-> st.fu])]

RECURSIVE DQGroups(_, _, _)
DQGroups(st, e, group) ==
  IF group > NGroups(e.n, e.mupper, e.mlower) THEN st
  ELSE DQGroups(DQGroup(st, e, group), e, group + 1)

\* KINBandDQJac(n, mupper, mlower, J, u, fu, jac_data, tmp1, tmp2): e holds
\* the arguments; the return value is 0
KINBandDQJac(bm, e) ==
  LET st0 == [utemp |-> e.u, futemp |-> [i \in Idx(e.n) |-> 0],
              J |-> bm.J, u |-> e.u, fu |-> e.fu, kc |-> bm.kc]
      st == DQGroups(st0, e, 1)
  IN [bm EXCEPT !.J = st.J,
                !.mem.nfeB = @ + NGroups(e.n, e.mupper, e.mlower),
                !.kc = st.kc]

---------------------------------------------------------------------------
(* KINBandInit, KINBandSetJacFn, KINBandSetup, KINBandSolve *)

\* mutant: the count of function evaluations is carried over
KINBandInitBody_KeepsNfeB(bm) ==
  LET m1 == [bm EXCEPT !.mem.nje = 0, !.mem.initialized = TRUE]
      m2 == IF m1.mem.jac = "NULL"
            THEN [m1 EXCEPT !.mem.jac = "KINBandDQJac",
                            !.mem.J_data = "kin_mem"]
            ELSE m1
  IN [m |-> [m2 EXCEPT !.mem.last_flag = KINBAND_SUCCESS], ret |-> 0]

\* mutant: the default routine is restored without its data
KINBandInitBody_KeepsJData(bm) ==
  LET m1 == [bm EXCEPT !.mem.nje = 0, !.mem.nfeB = 0,
                       !.mem.initialized = TRUE]
      m2 == IF m1.mem.jac = "NULL"
            THEN [m1 EXCEPT !.mem.jac = "KINBandDQJac"]
            ELSE m1
  IN [m |-> [m2 EXCEPT !.mem.last_flag = KINBAND_SUCCESS], ret |-> 0]

KINBandInitBody(bm) ==
  LET m1 == [bm EXCEPT !.mem.nje = 0, !.mem.nfeB = 0,
                       !.mem.initialized = TRUE]
      m2 == IF m1.mem.jac = "NULL"
            THEN [m1 EXCEPT !.mem.jac = "KINBandDQJac",
                            !.mem.J_data = "kin_mem"]
            ELSE m1
  IN [m |-> [m2 EXCEPT !.mem.last_flag = KINBAND_SUCCESS], ret |-> 0]

\* a is the argument list: kinmem, the routine bjac ("NULL" or "user") and
\* jac_data.  The routine is called between two runs of the solver, and
\* every run starts with linit: initialized is reset.
KINBandSetJacFnBody(bm, a) ==
  IF a.kinmem = "NULL" THEN [m |-> bm, ret |-> KINBAND_MEM_NULL]
  ELSE IF bm.kin.lmem = "NULL" THEN [m |-> bm, ret |-> KINBAND_LMEM_NULL]
  ELSE LET m1 == [bm EXCEPT !.mem.jac = a.bjac, !.mem.initialized = FALSE]
           m2 == IF a.bjac # "NULL" THEN [m1 EXCEPT !.mem.J_data = a.jac_data]
                 ELSE m1
       IN [m |-> m2, ret |-> KINBAND_SUCCESS]

\* a Jacobian routine of the caller: it stores the exact Jacobian of func
\* and returns a status
UserJac(bm, e) ==
  [bm EXCEPT
     !.J = [i \in Idx(e.n) |-> [j \in Idx(e.n) |->
                  IF i \in Rows(j, e.n, e.mupper, e.mlower)
                  THEN Real(Coef(i, j)) ELSE @[i][j]]],
     !.kc = Append(@, [fn |-> "jac", status |-> e.jstatus])]

\* jac(n, mu, ml, J, uu, fval, J_data, vtemp1, vtemp2): the value the
\* routine returns is not looked at
CallJac(bm, e) ==
  IF bm.mem.jac = "KINBandDQJac" THEN KINBandDQJac(bm, e)
  ELSE IF bm.mem.jac = "user" THEN UserJac(bm, e)
  ELSE [bm EXCEPT !.crash = TRUE]

\* mutant: the factorization result is returned as it is
SetupReturn_Ier(ier) == ier

\* if (ier > 0) return(1); return(0);
SetupReturn(ier) == IF ier > 0 THEN 1 ELSE 0

\* mutant: after the first setup since linit the Jacobian is not evaluated
KINBandSetupBody_ReusesJ(bm, in) ==
  LET e == [n |-> bm.mem.n, mupper |-> bm.mem.mu, mlower |-> bm.mem.ml,
            u |-> in.uu, fu |-> in.fval, uscale |-> in.uscale,
            ffail |-> in.ffail, jstatus |-> in.jstatus]
      m1 == [bm EXCEPT !.mem.nje = @ + 1, !.J = BandZero(bm.mem.n)]
      m2 == IF bm.mem.nje > 0 THEN m1 ELSE CallJac(m1, e)
      m3 == [Did(m2, [fn |-> "BandFactor", J |-> m2.J, ier |-> in.ier])
               EXCEPT !.mem.J = IF in.ier = 0 THEN "factored" ELSE "singular"]
  IN IF m2.crash THEN [m |-> m2, ret |-> 0]
     ELSE [m |-> [m3 EXCEPT !.mem.last_flag = in.ier],
           ret |-> SetupReturn(in.ier)]

\* in is the state of the KINSOL memory at the call (uu, fval, uscale),
\* the statuses the callbacks return and the result ier of BandFactor
KINBandSetupBody(bm, in) ==
  LET e == [n |-> bm.mem.n, mupper |-> bm.mem.mu, mlower |-> bm.mem.ml,
            u |-> in.uu, fu |-> in.fval, uscale |-> in.uscale,
            ffail |-> in.ffail, jstatus |-> in.jstatus]
      m1 == [bm EXCEPT !.mem.nje = @ + 1, !.J = BandZero(bm.mem.n)]
      m2 == CallJac(m1, e)
      m3 == [Did(m2, [fn |-> "BandFactor", J |-> m2.J, ier |-> in.ier])
               EXCEPT !.mem.J = IF in.ier = 0 THEN "factored" ELSE "singular"]
  IN IF m2.crash THEN [m |-> m2, ret |-> 0]
     ELSE [m |-> [m3 EXCEPT !.mem.last_flag = in.ier],
           ret |-> SetupReturn(in.ier)]

\* BandBacksolve on the factors; the vectors x and b and the norms
\* sJpnorm and sfdotJp are not represented
KINBandSolveBody(bm) ==
  [m |-> [Did(bm, [fn |-> "BandBacksolve"])
            EXCEPT !.mem.last_flag = KINBAND_SUCCESS],
   ret |-> 0]

---------------------------------------------------------------------------
(* The calls of the band solver *)

\* the process ended on undefined behaviour: nothing of the state is left
BandDead(name) ==
  /\ alive' = FALSE
  /\ kin_mem' = KINCreate
  /\ kinband_mem' = NoBandMem
  /\ kcalls' = <<>>
  /\ ret' = 0
  /\ op' = name
  /\ arg' = BandArg0

\* what a call of the band solver leaves in the state
BandFinish(name, a, r) ==
  /\ IF r.m.crash THEN BandDead(name)
     ELSE /\ alive' = alive
          /\ kin_mem' = r.m.kin
          /\ kinband_mem' = r.m.mem
          /\ kcalls' = r.m.kc
          /\ ret' = r.ret
          /\ op' = name
          /\ arg' = a
  /\ UNCHANGED <<handle, S, heap, A, x, b, spils>>

Dims == 0..MaxN

HalfWidths(N) == -1..MIN(N, MaxHalfWidth)

\* the argument lists of KINBand: every dimension with every pair of
\* half-bandwidths, and one list for each thing that can go wrong
KINBandArgs ==
  {[BandArg0 EXCEPT !.N = N, !.mupper = mu, !.mlower = ml] :
     N \in Dims, mu \in -1..MaxHalfWidth, ml \in -1..MaxHalfWidth}
  \cup {[BandArg0 EXCEPT !.N = MaxN, !.kinmem = "NULL"],
        [BandArg0 EXCEPT !.N = MaxN, !.compatible = FALSE],
        [BandArg0 EXCEPT !.N = MaxN, !.memOk = FALSE],
        [BandArg0 EXCEPT !.N = MaxN, !.JOk = FALSE],
        [BandArg0 EXCEPT !.N = MaxN, !.pivotsOk = FALSE]}

\* whether the allocator detects a second release
Aborts == IF kin_mem.lmem = "freed" THEN BOOLEAN ELSE {FALSE}

KINBand ==
  /\ alive
  /\ \E a0 \in KINBandArgs, ab \in Aborts :
       LET a == [a0 EXCEPT !.abort = ab] IN
       /\ a.mupper \in HalfWidths(a.N)
       /\ a.mlower \in HalfWidths(a.N)
       /\ BandFinish("KINBand", a,
                     KINBandBody(BandMachine(kin_mem, kinband_mem), a))

\* lfree(kin_mem), as the KINSOL memory is torn down
KINBandFree ==
  /\ alive
  /\ kin_mem.lfree = "KINBandFree"
  /\ \E ab \in Aborts :
       BandFinish("KINBandFree", [BandArg0 EXCEPT !.abort = ab],
                  [m |-> KINBandFreeBody(BandMachine(kin_mem, kinband_mem),
                                         ab),
                   ret |-> 0])

KINBandInit ==
  /\ alive
  /\ kin_mem.lmem = "live"
  /\ BandFinish("KINBandInit", BandArg0,
                KINBandInitBody(BandMachine(kin_mem, kinband_mem)))

KINBandSetJacFn ==
  /\ alive
  /\ kin_mem.lmem # "freed"
  /\ \E km \in {"kin_mem", "NULL"}, bjac \in {"user", "NULL"} :
       LET a == [kinmem |-> km, bjac |-> bjac, jac_data |-> "user_data"] IN
       BandFinish("KINBandSetJacFn", a,
                  KINBandSetJacFnBody(BandMachine(kin_mem, kinband_mem), a))

\* the iterates uu the caller's problem is set up at, and the scaling
\* vectors uscale
UVecs(n) == {[j \in Idx(n) |-> 1 - (j % 3)], [j \in Idx(n) |-> -2 - (j % 2)]}

Scales(n) == {[j \in Idx(n) |-> 2 - (j % 2)], [j \in Idx(n) |-> 0]}

\* the pairs of uu and uscale at which a setup is called
Iterates(n) ==
  {p \in UVecs(n) \X Scales(n) :
     p[2] = [j \in Idx(n) |-> 0] => p[1] = [j \in Idx(n) |-> 1 - (j % 3)]}

\* the system function fails in no call, in the first or in the last one,
\* recoverably (positive) or not
FuncFailures(ngroups) ==
  {[at |-> 0, status |-> 0], [at |-> 1, status |-> 1],
   [at |-> ngroups, status |-> -1]}

\* ier of BandFactor: 0, or the column of the zero pivot
BandFactorResults(n) == {0, n}

SetupInputs(mem) ==
  LET e0 == [n |-> mem.n, mupper |-> mem.mu, mlower |-> mem.ml] IN
  {[uu |-> p[1], fval |-> func(e0, p[1]), uscale |-> p[2], ffail |-> ff,
    jstatus |-> js, ier |-> ier] :
     p \in (IF mem.jac = "KINBandDQJac" THEN Iterates(mem.n)
            ELSE {<<[j \in Idx(mem.n) |-> 1], [j \in Idx(mem.n) |-> 1]>>}),
     ff \in (IF mem.jac = "KINBandDQJac"
             THEN FuncFailures(NGroups(mem.n, mem.mu, mem.ml))
             ELSE {[at |-> 0, status |-> 0]}),
     js \in (IF mem.jac = "user" THEN {0, 1, -1} ELSE {0}),
     ier \in BandFactorResults(mem.n)}

KINBandSetup ==
  /\ alive
  /\ kin_mem.lmem = "live"
  /\ kinband_mem.initialized
  /\ kinband_mem.nje < MaxSetups
  /\ \E in \in SetupInputs(kinband_mem) :
       BandFinish("KINBandSetup", in,
                  KINBandSetupBody(BandMachine(kin_mem, kinband_mem), in))

KINBandSolve ==
  /\ alive
  /\ kin_mem.lmem = "live"
  /\ kinband_mem.initialized
  /\ kinband_mem.J = "factored"
  /\ BandFinish("KINBandSolve", BandArg0,
                KINBandSolveBody(BandMachine(kin_mem, kinband_mem)))

---------------------------------------------------------------------------
(* The optional outputs of the band solver *)

\* One of the KINBandGet routines: what names the output argument and
\* value is what the routine reads from the band memory for it.  The
\* store into the output argument is recorded in kcalls.
KINBandGetBody(bm, a, what, value) ==
  IF a.kinmem = "NULL" THEN [m |-> bm, ret |-> KINBAND_MEM_NULL]
  ELSE IF bm.kin.lmem = "NULL" THEN [m |-> bm, ret |-> KINBAND_LMEM_NULL]
  ELSE [m |-> Did(bm, [fn |-> "store", what |-> what, value |-> value]),
        ret |-> KINBAND_SUCCESS]

\* the values a read of a counter can give: while the counter is
\* unassigned, whatever the allocated block held
ReadCounter(c) == IF c = Unassigned THEN 0..1 ELSE {c}

\* *lenrwB = n*(storage_mu + mu + 2*ml + 2); *leniwB = n;
WorkSpace(mem) ==
  <<mem.n * (mem.storage_mu + mem.mu + 2 * mem.ml + 2), mem.n>>

KINBandGet(name, what, values) ==
  /\ alive
  /\ kin_mem.lmem # "freed"
  /\ \E km \in {"kin_mem", "NULL"}, v \in values :
       BandFinish(name, [BandArg0 EXCEPT !.kinmem = km],
                  KINBandGetBody(BandMachine(kin_mem, kinband_mem),
                                 [BandArg0 EXCEPT !.kinmem = km], what, v))

KINBandGetWorkSpace ==
  KINBandGet("KINBandGetWorkSpace", "lenrwB, leniwB", {WorkSpace(kinband_mem)})

KINBandGetNumJacEvals ==
  KINBandGet("KINBandGetNumJacEvals", "njevalsB", ReadCounter(kinband_mem.nje))

KINBandGetNumFuncEvals ==
  KINBandGet("KINBandGetNumFuncEvals", "nfevalsB",
             ReadCounter(kinband_mem.nfeB))

KINBandGetLastFlag ==
  KINBandGet("KINBandGetLastFlag", "flag", {kinband_mem.last_flag})

\* linit, lsetup or lsolve called, or KINBandSetJacFn or one of the
\* KINBandGet routines, while lmem does not point to a band memory that
\* exists: the call reads or writes a NULL or released block
KINBandBadLmem ==
  /\ alive
  /\ kin_mem.lsetup = "KINBandSetup"
  /\ kin_mem.lmem # "live"
  /\ BandDead("KINBandBadLmem")
  /\ UNCHANGED <<handle, S, heap, A, x, b, spils>>

---------------------------------------------------------------------------
(* The calls of the preconditioner setup routine (CVSpilsPrecSetupFn,      *)
(* src/cvode/include/cvode_spils.h).  The header declares the routine and  *)
(* the two constants that govern its calls; the layer that issues the      *)
(* calls is described by sections 4.1, 4.4, 6 and 7 of the design          *)
(* document and is modelled from there.                                    *)

CVSPILS_MSBPRE == 50

\* CVSPILS_DGMAX, RCONST(0.2), in tenths
CVSPILS_DGMAX == 2

\* the relative changes of gamma since the last evaluation, in tenths:
\* below, at and above CVSPILS_DGMAX
DGammas == {1, 2, 3}

\* what the setup routine returns: success, a recoverable failure, an
\* unrecoverable one
PrecSetupResults == {0, 1, -1}

NoCall == [jok |-> FALSE, status |-> 0, number |-> 0, saved |-> FALSE]

\* The layer after construction: the re-use flag is reset, no call of the
\* setup routine has been made.  forced is the reset re-use flag, since
\* the number of steps since the last evaluation, calls the number of
\* setup calls (1 stands for the first, 2 for any later one), saved
\* whether a call with jok = FALSE has succeeded, last the last call.
SpilsCreate ==
  [forced |-> TRUE, since |-> 0, calls |-> 0, saved |-> FALSE, last |-> NoCall]

InitSpils == spils = SpilsCreate

\* initialize(): resets the re-use flag, which forces the next setup to
\* build the preconditioner anew
SpilsInitialize ==
  /\ spils' = [spils EXCEPT !.forced = TRUE]
  /\ UNCHANGED <<kluvars, bandvars>>

\* the integrator completes a step
SpilsStep ==
  /\ spils.calls > 0
  /\ spils.since <= CVSPILS_MSBPRE
  /\ spils' = [spils EXCEPT !.since = @ + 1]
  /\ UNCHANGED <<kluvars, bandvars>>

\* mutant: the reset re-use flag is not looked at
JacobianOk_IgnoresReset(sp, dgamma, convfail) ==
  ~(sp.since > CVSPILS_MSBPRE \/ dgamma > CVSPILS_DGMAX \/ convfail)

\* jok: the saved data may be re-used unless the re-use flag is reset,
\* more than CVSPILS_MSBPRE steps were taken since the last evaluation,
\* gamma changed by more than CVSPILS_DGMAX, or the nonlinear iteration
\* asks for a fresh evaluation after a failure
JacobianOk(sp, dgamma, convfail) ==
  ~(sp.forced \/ sp.since > CVSPILS_MSBPRE \/ dgamma > CVSPILS_DGMAX
      \/ convfail)

\* one setup of the linear solver: the call of the setup routine with
\* jok, and what the layer keeps of its result
SpilsSetupBody(sp, dgamma, convfail, status) ==
  LET jok == JacobianOk(sp, dgamma, convfail)
      sp1 == [sp EXCEPT !.calls = IF @ = 0 THEN 1 ELSE 2,
                        !.last = [jok |-> jok, status |-> status,
                                  number |-> IF sp.calls = 0 THEN 1 ELSE 2,
                                  saved |-> sp.saved]]
  IN IF ~jok /\ status = 0
     THEN [sp1 EXCEPT !.forced = FALSE, !.since = 0, !.saved = TRUE]
     ELSE sp1

SpilsSetup ==
  /\ \E dgamma \in DGammas, convfail \in BOOLEAN, status \in PrecSetupResults :
       spils' = SpilsSetupBody(spils, dgamma, convfail, status)
  /\ UNCHANGED <<kluvars, bandvars>>

---------------------------------------------------------------------------
(* The specifications *)

Init == InitKLU /\ InitBand /\ InitSpils

Next ==
  \/ SUNLinSolInitialize_KLU
  \/ SUNLinSolSetup_KLU
  \/ SetupCrash
  \/ ReInitCrash
  \/ SolveCrash
  \/ SUNKLUReInit
  \/ SUNLinSolSolve_KLU
  \/ SUNLinSolFree_KLU
  \/ FreeCrash
  \/ FreedSolverCrash
  \/ CallerNewMatrix

Spec == Init /\ [][Next]_vars

\* One KLU solver with the operations that decide what a setup does and
\* what the flags hold: the ordering choice and the unsupported setters
\* included, the solve and the release left to Spec.
NextKLUOps ==
  \/ SUNLinSolInitialize_KLU
  \/ SUNLinSolSetup_KLU
  \/ SetupCrash
  \/ ReInitCrash
  \/ SUNKLUReInit
  \/ SUNKLUSetOrdering
  \/ SUNLinSolSetATimes_KLU
  \/ SUNLinSolSetPreconditioner_KLU
  \/ SUNLinSolSetScalingVectors_KLU

SpecKLUOps == Init /\ [][NextKLUOps]_vars

\* The constructor on its own: a solver is made for every matrix and
\* vector, in every build.
\* the program before it has a solver: arg holds what the call of SUNKLU
\* will be given
InitSUNKLU ==
  /\ alive = TRUE
  /\ handle = "NULL"
  /\ A \in SparseMats({CSC_MAT})
  /\ S = SUNKLU(A)
  /\ heap = [i \in Slots |-> FreeObj]
  /\ x = ZeroVec
  /\ b = RhsVec
  /\ op = "main"
  /\ arg \in [y : Vectors, M : CreateMats, e : CreateEnvs]
  /\ ret = 0
  /\ kcalls = <<>>
  /\ InitBand
  /\ InitSpils

NextSUNKLU == SUNKLU_Call

SpecSUNKLU == InitSUNKLU /\ [][NextSUNKLU]_vars

InitKINBand == Init /\ A.sparsetype = CSC_MAT

NextKINBand ==
  \/ KINBand
  \/ KINBandFree
  \/ KINBandInit
  \/ KINBandSetJacFn
  \/ KINBandSetup
  \/ KINBandSolve
  \/ KINBandBadLmem

SpecKINBand == InitKINBand /\ [][NextKINBand]_vars

\* A KLU solver and a band solver in one process, each with its
\* introspection: of the KLU solver the calls that run no kernel, of the
\* band solver every call.
NextTwoSolvers ==
  \/ NextKINBand
  \/ KINBandGetWorkSpace
  \/ KINBandGetNumJacEvals
  \/ KINBandGetNumFuncEvals
  \/ KINBandGetLastFlag
  \/ SUNLinSolInitialize_KLU
  \/ SUNLinSolSetATimes_KLU
  \/ SUNLinSolSetPreconditioner_KLU
  \/ SUNLinSolSetScalingVectors_KLU
  \/ SUNLinSolGetType_KLU
  \/ SUNLinSolNumIters_KLU
  \/ SUNLinSolResNorm_KLU
  \/ SUNLinSolNumPSolves_KLU
  \/ SUNLinSolLastFlag_KLU

SpecTwoSolvers == InitKINBand /\ [][NextTwoSolvers]_vars

\* The Jacobian build on its own: a band solver attached by KINBand with
\* legal sizes and initialized by KINBandInit, then set up.
JacArgs ==
  {[BandArg0 EXCEPT !.N = N, !.mupper = mu, !.mlower = ml] :
     N \in 1..MaxJacN, mu \in 0..MaxHalfWidth, ml \in 0..MaxHalfWidth}

Initialized(a) ==
  KINBandInitBody(KINBandBody(BandMachine(KINCreate, NoBandMem), a).m).m

InitDQJac ==
  /\ InitKLU
  /\ InitSpils
  /\ A.sparsetype = CSC_MAT
  /\ \E a \in JacArgs :
       /\ ~IllegalSizes(a.N, a.mupper, a.mlower)
       /\ kin_mem = Initialized(a).kin
       /\ kinband_mem = Initialized(a).mem

NextDQJac == KINBandSetup

SpecDQJac == InitDQJac /\ [][NextDQJac]_vars

\* The band solver as the nonlinear iteration drives it: attached with
\* legal sizes and initialized, then set up again and again, with linit at
\* the start of every run and the Jacobian routine changed between runs.
\* A new run is always started.
SetupArgs ==
  {[BandArg0 EXCEPT !.N = N, !.mupper = mu, !.mlower = ml] :
     N \in 1..MaxN, mu \in 0..MaxHalfWidth, ml \in 0..MaxHalfWidth}

InitSetups ==
  /\ InitKLU
  /\ InitSpils
  /\ A.sparsetype = CSC_MAT
  /\ \E a \in SetupArgs :
       /\ ~IllegalSizes(a.N, a.mupper, a.mlower)
       /\ kin_mem = Initialized(a).kin
       /\ kinband_mem = Initialized(a).mem

NextSetups ==
  \/ KINBandInit
  \/ KINBandSetJacFn
  \/ KINBandSetup

SpecSetups == InitSetups /\ [][NextSetups]_vars /\ WF_vars(KINBandInit)

\* The calls of the preconditioner setup routine on their own.
NextSpils ==
  \/ SpilsInitialize
  \/ SpilsStep
  \/ SpilsSetup

SpecSpils == InitKINBand /\ [][NextSpils]_vars

---------------------------------------------------------------------------
(* Properties *)

\* the kernels called, in order
Fns(kc) == [i \in 1..Len(kc) |-> kc[i].fn]

Called(kc, fn) == Count(kc, fn) > 0

\* a setup that began with a re-factorization, and that re-factorization failed
RefactorFailed(kc) == kc # <<>> /\ kc[1].fn = "refactor" /\ ~kc[1].ok

\* the last call was a setup on the caller's live sparse matrix
SetupOnLive(o, a, M) == o = "Setup" /\ a.h = "A" /\ M.live

\* C1, as stated: a failed re-factorization is followed, in the same setup
\* call, by a symbolic analysis and a numeric factorization, and setup fails
\* only if that fallback fails.
C1_FallbackInSameCall ==
  (op = "Setup" /\ RefactorFailed(kcalls)) =>
     /\ Called(kcalls, "analyze")
     /\ (ret # SUNLS_SUCCESS =>
           \E i \in 1..Len(kcalls) :
              kcalls[i].fn \in {"analyze", "factor"} /\ ~kcalls[i].ok)

\* C1, amended: a failed re-factorization ends the setup call at once.  No
\* other kernel is called (no analysis, no factorization), setup returns
\* SUNLS_PACKAGE_FAIL_REC, and first_factorize and the two handles are left
\* as they were.
C1_NoFallback ==
  (op = "Setup" /\ RefactorFailed(kcalls)) =>
     /\ Fns(kcalls) = <<"refactor">>
     /\ ret = SUNLS_PACKAGE_FAIL_REC
     /\ S.last_flag = SUNLS_PACKAGE_FAIL_REC
     /\ S.first_factorize = 0
     /\ S.symbolic = kcalls[1].sym
     /\ S.numeric = kcalls[1].num

\* a re-factorization of existing factors failed and setup returned
C1_Witness ==
  /\ op = "Setup"
  /\ RefactorFailed(kcalls)
  /\ kcalls[1].num # NULL
  /\ kcalls[1].sym # NULL
  /\ ret = SUNLS_PACKAGE_FAIL_REC

\* C2: a setup that starts with first_factorize = 0 on a sparse matrix
\* begins with the re-factorization on the existing symbolic and numeric
\* handles, and if that reports failure setup returns the recoverable
\* (positive) code SUNLS_PACKAGE_FAIL_REC.
C2_RefactorFailureRecoverable ==
  [][(SetupOnLive(op', arg', A) /\ S.first_factorize = 0) =>
       /\ kcalls' # <<>>
       /\ kcalls'[1].fn = "refactor"
       /\ kcalls'[1].sym = S.symbolic
       /\ kcalls'[1].num = S.numeric
       /\ (~kcalls'[1].ok => ret' = SUNLS_PACKAGE_FAIL_REC /\ ret' > 0)]_vars

\* a non-first setup returned the recoverable code after a failed
\* re-factorization
C2_Witness ==
  /\ SetupOnLive(op, arg, A)
  /\ RefactorFailed(kcalls)
  /\ S.first_factorize = 0
  /\ ret > 0

\* the calls of analyze and factor made by a setup, in order
Factorizations(kc) == SelectSeq(kc, LAMBDA k : k.fn \in {"analyze", "factor"})

\* C3: a setup that starts with first_factorize set runs the symbolic
\* analysis and then the numeric factorization.  If the analysis fails no
\* factorization is attempted; if either fails setup returns a negative
\* code and first_factorize stays set; first_factorize is cleared only by a
\* setup in which both succeeded.
C3_FirstSetup ==
  [][/\ (SetupOnLive(op', arg', A) /\ S.first_factorize # 0) =>
          LET f == Factorizations(kcalls') IN
          /\ ~Called(kcalls', "refactor")
          /\ Len(f) >= 1
          /\ f[1].fn = "analyze"
          /\ (~f[1].ok => /\ Len(f) = 1
                          /\ ret' = SUNLS_PACKAGE_FAIL_UNREC
                          /\ ret' < 0
                          /\ S'.first_factorize # 0)
          /\ (f[1].ok => /\ Len(f) = 2
                         /\ f[2].fn = "factor"
                         /\ f[2].sym = S'.symbolic
                         /\ (~f[2].ok => /\ ret' = SUNLS_PACKAGE_FAIL_UNREC
                                         /\ ret' < 0
                                         /\ S'.first_factorize # 0)
                         /\ (f[2].ok => /\ ret' = SUNLS_SUCCESS
                                        /\ S'.first_factorize = 0))
     /\ (S.first_factorize # 0 /\ S'.first_factorize = 0) =>
          /\ op' = "Setup"
          /\ ret' = SUNLS_SUCCESS
          /\ \A i \in 1..Len(kcalls') : kcalls'[i].ok
          /\ Called(kcalls', "analyze")
          /\ Called(kcalls', "factor")]_vars

\* a first setup whose analysis succeeded and whose factorization failed
C3_Witness ==
  /\ SetupOnLive(op, arg, A)
  /\ Called(kcalls, "analyze")
  /\ \E i \in 1..Len(kcalls) : kcalls[i].fn = "factor" /\ ~kcalls[i].ok
  /\ ret = SUNLS_PACKAGE_FAIL_UNREC
  /\ S.first_factorize = 1

\* C4: SUNLinSolInitialize_KLU returns success from every state and sets
\* first_factorize; the setup that follows it runs the symbolic analysis
\* and, when that succeeds, a full numeric factorization, and no
\* re-factorization.
C4_InitializeForcesFull ==
  [][/\ op' = "Initialize" =>
          /\ ret' = SUNLS_SUCCESS
          /\ S'.last_flag = SUNLS_SUCCESS
          /\ S'.first_factorize = 1
     /\ (op = "Initialize" /\ SetupOnLive(op', arg', A)) =>
          LET f == Factorizations(kcalls') IN
          /\ ~Called(kcalls', "refactor")
          /\ Len(f) >= 1
          /\ f[1].fn = "analyze"
          /\ (f[1].ok => Len(f) = 2 /\ f[2].fn = "factor")]_vars

\* initialize was called on a solver that holds a complete factorization
C4_Witness ==
  /\ op = "Initialize"
  /\ ret = SUNLS_SUCCESS
  /\ S.symbolic # NULL
  /\ S.numeric # NULL
  /\ heap[S.numeric].valid
  /\ S.first_factorize = 1

\* C5: once a setup has succeeded (first_factorize = 0), setup and solve
\* calls run no symbolic analysis and leave first_factorize at 0; as long
\* as the solver exists, only SUNLinSolInitialize_KLU and SUNKLUReInit set
\* it again.  A setup that
\* directly follows a successful setup begins with the re-factorization,
\* and solve calls none of analyze, factor and refactor.
C5_NoAnalysisUntilReset ==
  [][/\ (op' = "Setup" /\ ret' = SUNLS_SUCCESS) => S'.first_factorize = 0
     /\ (S.first_factorize = 0 /\ op' \in {"Setup", "Solve"}) =>
          /\ ~Called(kcalls', "analyze")
          /\ S'.first_factorize = 0
     /\ (/\ S.first_factorize = 0 /\ S'.first_factorize # 0
         /\ alive' /\ handle' = "live") =>
          op' \in {"Initialize", "ReInit"}
     /\ (op = "Setup" /\ ret = SUNLS_SUCCESS /\ SetupOnLive(op', arg', A)) =>
          /\ kcalls' # <<>>
          /\ kcalls'[1].fn = "refactor"
     /\ op' = "Solve" =>
          /\ ~Called(kcalls', "analyze")
          /\ ~Called(kcalls', "factor")
          /\ ~Called(kcalls', "refactor")]_vars

\* a setup that took the re-factorization path and succeeded
C5_Witness ==
  /\ SetupOnLive(op, arg, A)
  /\ ret = SUNLS_SUCCESS
  /\ kcalls # <<>>
  /\ kcalls[1].fn = "refactor"
  /\ kcalls[1].ok

\* a setup whose re-factorization and rcond estimate both succeeded
RcondObtained(o, kc) ==
  /\ o = "Setup"
  /\ Len(kc) >= 2
  /\ kc[1].fn = "refactor" /\ kc[1].ok
  /\ kc[2].fn = "rcond" /\ kc[2].ok

\* the setup computed the accurate estimate, condest
CondestCalled(kc) == Len(kc) >= 3 /\ kc[3].fn = "condest"

\* the setup freed the re-factored numeric object and factored anew with the
\* symbolic object it had
Recomputed(kc) ==
  /\ Fns(kc) = <<"refactor", "rcond", "condest", "free_numeric", "factor">>
  /\ kc[4].num = kc[1].num
  /\ kc[5].sym = kc[1].sym

\* C6: in a setup whose re-factorization and rcond estimate succeeded, the
\* accurate estimate condest is computed exactly when rcond is below
\* uround^(2/3), and the numeric factorization is discarded and recomputed
\* with the same symbolic data exactly when rcond is below uround^(2/3) and
\* the accurate estimate was obtained and is greater than 1/uround^(2/3).
C6_RecomputeIffIllConditioned ==
  RcondObtained(op, kcalls) =>
     /\ CondestCalled(kcalls) <=> kcalls[2].val < uround_twothirds
     /\ Recomputed(kcalls) <=>
          /\ kcalls[2].val < uround_twothirds
          /\ CondestCalled(kcalls)
          /\ kcalls[3].ok
          /\ kcalls[3].val > inv_uround_twothirds
     /\ ~Recomputed(kcalls) =>
          /\ ~Called(kcalls, "free_numeric")
          /\ ~Called(kcalls, "factor")
          /\ S.numeric = kcalls[1].num
     /\ S.symbolic = kcalls[1].sym
     /\ ~Called(kcalls, "analyze")
     /\ ~Called(kcalls, "free_symbolic")

\* a setup that discarded the re-factored numeric data and recomputed it
C6_Witness ==
  /\ RcondObtained(op, kcalls)
  /\ Recomputed(kcalls)
  /\ kcalls[5].ok
  /\ ret = SUNLS_SUCCESS

KernelSolveCalled(o, kc) ==
  o = "Solve" /\ kc # <<>> /\ kc[1].fn \in {"klu_solve", "klu_tsolve"}

\* the handles are those of a complete factorization: a live symbolic object
\* and a live numeric object that a successful (re-)factorization with that
\* symbolic object filled
UsableFactorization(h, sym, num) ==
  /\ sym # NULL
  /\ num # NULL
  /\ h[sym].live /\ h[sym].kind = "symbolic"
  /\ h[num].live /\ h[num].kind = "numeric"
  /\ h[num].valid
  /\ h[num].sym = sym

\* C8: every call of the solve kernel receives the symbolic and numeric data
\* of a successful factorization that has not been freed.
C8_SolveUsesValidData ==
  KernelSolveCalled(op, kcalls) =>
     UsableFactorization(heap, kcalls[1].sym, kcalls[1].num)

\* the arguments of the solve are all non-NULL
SolveArgsGiven(o, a) ==
  o = "Solve" /\ a.S # "NULL" /\ a.h # "NULL" /\ a.vec # "NULL"

\* C9, as stated: a solve with non-NULL arguments returns the recoverable
\* failure when the kernel reports failure and success otherwise.
C9_RecoverableOrSuccess ==
  SolveArgsGiven(op, arg) =>
     IF kcalls # <<>> /\ ~kcalls[1].ok
     THEN ret = SUNLS_PACKAGE_FAIL_REC
     ELSE ret = SUNLS_SUCCESS

\* C9, amended: a solve with non-NULL arguments copies b into x; if x has no
\* data array it returns SUNLS_MEM_FAIL without calling the kernel;
\* otherwise it calls the solve kernel once with the stored symbolic and
\* numeric handles, in place on x, and returns the recoverable (positive)
\* code when the kernel reports failure and success when it does not, x then
\* holding the kernel's solution for b.  In every case b, A, the symbolic and
\* numeric data and first_factorize are unchanged.
C9_SolveEffect ==
  [][SolveArgsGiven(op', arg') =>
       /\ b' = b
       /\ A' = A
       /\ heap' = heap
       /\ S'.symbolic = S.symbolic
       /\ S'.numeric = S.numeric
       /\ S'.first_factorize = S.first_factorize
       /\ ~HasData(arg'.vec) =>
            /\ kcalls' = <<>>
            /\ ret' = SUNLS_MEM_FAIL
            /\ x' = x
       /\ HasData(arg'.vec) =>
            /\ Len(kcalls') = 1
            /\ kcalls'[1].fn = S.klu_solver
            /\ kcalls'[1].sym = S.symbolic
            /\ kcalls'[1].num = S.numeric
            /\ (~kcalls'[1].ok => ret' = SUNLS_PACKAGE_FAIL_REC /\ ret' > 0)
            /\ (kcalls'[1].ok => /\ ret' = SUNLS_SUCCESS
                                 /\ x' = KluSolve(heap[S.numeric], b))]_vars

\* a successful solve: x holds the solution, which is not b itself
C9_Witness ==
  /\ SolveArgsGiven(op, arg)
  /\ ret = SUNLS_SUCCESS
  /\ kcalls[1].ok
  /\ x # b
  /\ x = KluSolve(heap[S.numeric], b)

\* C10: a SUNKLUReInit that returns success had reinit_type 1 or 2 and
\* leaves the solver with no symbolic data, no numeric data (the objects it
\* held are freed) and first_factorize set; the next setup, given a live
\* sparse matrix, runs the symbolic analysis and, when that succeeds, a full
\* numeric factorization of that matrix, and no re-factorization.
C10_ReInitResets ==
  [][/\ (op' = "ReInit" /\ ret' = SUNLS_SUCCESS) =>
          /\ arg'.reinit_type \in {1, 2}
          /\ S'.symbolic = NULL
          /\ S'.numeric = NULL
          /\ S'.first_factorize = 1
          /\ \A i \in Slots : ~heap'[i].live
     /\ (/\ op \in {"ReInit", "NewMatrix"}
         /\ S.symbolic = NULL /\ S.numeric = NULL /\ S.first_factorize = 1
         /\ SetupOnLive(op', arg', A)) =>
          /\ Len(kcalls') >= 1
          /\ kcalls'[1].fn = "analyze"
          /\ (~kcalls'[1].ok => Len(kcalls') = 1)
          /\ (kcalls'[1].ok =>
                /\ Fns(kcalls') = <<"analyze", "factor">>
                /\ (kcalls'[2].ok => /\ ret' = SUNLS_SUCCESS
                                     /\ heap'[S'.numeric].a = A.a
                                     /\ heap'[S'.numeric].sym = S'.symbolic))]_vars

\* a full rebuild (reinit_type 1) of a solver that held a factorization
C10_Witness ==
  /\ op = "ReInit"
  /\ ret = SUNLS_SUCCESS
  /\ arg.reinit_type = 1
  /\ Fns(kcalls) = <<"free_symbolic", "free_numeric">>
  /\ S.first_factorize = 1


\* C11, as stated: after SUNKLUReInit with reinit_type 1 returned success,
\* the matrix handle the caller holds refers to a live sparse matrix of the
\* same sparse type with capacity nnz.
C11_CallerMatrixLive ==
  (/\ op = "ReInit"
   /\ arg.S = "S"
   /\ arg.h = "A"
   /\ arg.reinit_type = 1
   /\ ret = SUNLS_SUCCESS) =>
     /\ A.live
     /\ A.id = SUNMATRIX_SPARSE
     /\ A.nnz = arg.nnz


\* C12, as stated: every call of SUNLinSolFree_KLU, the second one on the
\* same handle and the one on NULL included, returns success, releases only
\* live blocks (nothing is freed twice) and does not run into released
\* memory.
C12_FreeIdempotent ==
  /\ op = "Free" =>
       /\ ret = SUNLS_SUCCESS
       /\ \A i \in 1..Len(kcalls) : kcalls[i].ok
  /\ op # "FreeCrash"


\* the records of the column groups of a Jacobian build, in order
GroupRecs(kc) == SelectSeq(kc, LAMBDA r : r.fn = "group")

\* the last call was a setup that built the Jacobian by difference quotients
BuiltByDQ == op = "KINBandSetup" /\ GroupRecs(kcalls) # <<>>

\* the row band of column j for the sizes of the attached solver
Band(j) ==
  {i \in Idx(kinband_mem.n) :
     /\ MAX(0, j - kinband_mem.mu) <= i
     /\ i <= MIN(j + kinband_mem.ml, kinband_mem.n - 1)}

BandWidth == kinband_mem.ml + kinband_mem.mu + 1

\* the matrix a setup handed to BandFactor
Assembled(kc) == kc[Len(kc)].J

\* C13: in every group of a Jacobian build, the perturbed columns are
\* congruent modulo ml+mu+1 and the row bands of any two of them are
\* disjoint; hence, when the system function succeeded and no increment was
\* zero, every quotient stored in the band is the exact derivative of the
\* (linear) system function: no other perturbed column contributed to it.
C13_GroupBandsDisjoint ==
  BuiltByDQ =>
    /\ \A g \in 1..Len(GroupRecs(kcalls)) :
         \A j1, j2 \in GroupRecs(kcalls)[g].cols :
           /\ j1 % BandWidth = j2 % BandWidth
           /\ j1 # j2 => Band(j1) \cap Band(j2) = {}
    /\ (/\ arg.ffail.at = 0
        /\ \A j \in Idx(kinband_mem.n) : arg.uu[j] # 0 \/ arg.uscale[j] # 0) =>
         \A j \in Idx(kinband_mem.n) : \A i \in Band(j) :
           Assembled(kcalls)[i][j] = Real(Coef(i, j))

\* a build for a tridiagonal-or-wider band in which some group held several
\* columns, and the assembled matrix is the exact Jacobian
C13_Witness ==
  /\ BuiltByDQ
  /\ kinband_mem.ml > 0
  /\ kinband_mem.mu > 0
  /\ \E g \in 1..Len(GroupRecs(kcalls)) :
       Cardinality(GroupRecs(kcalls)[g].cols) >= 3
  /\ arg.ffail.at = 0
  /\ \A j \in Idx(kinband_mem.n) : \A i \in Band(j) :
       Assembled(kcalls)[i][j] = Real(Coef(i, j))

\* C14: a setup with the difference quotient Jacobian evaluates the system
\* function exactly min(ml+mu+1, n) times (once per group) and increases
\* nfeB by exactly that number.
C14_EvaluationsPerBuild ==
  [][(op' = "KINBandSetup" /\ kinband_mem.jac = "KINBandDQJac") =>
       /\ Len(GroupRecs(kcalls')) = MIN(BandWidth, kinband_mem.n)
       /\ kinband_mem'.nfeB = kinband_mem.nfeB + MIN(BandWidth, kinband_mem.n)
       /\ kinband_mem'.n = kinband_mem.n
       /\ kinband_mem'.ml = kinband_mem.ml
       /\ kinband_mem'.mu = kinband_mem.mu]_vars

\* the build for n = 10, ml = mu = 1: three evaluations
C14_Witness ==
  /\ BuiltByDQ
  /\ kinband_mem.n = 10
  /\ kinband_mem.ml = 1
  /\ kinband_mem.mu = 1
  /\ Len(GroupRecs(kcalls)) = 3
  /\ kinband_mem.nfeB = 3

\* how often entry (i, j) was written during the build
RECURSIVE Writes(_, _, _)
Writes(recs, i, j) ==
  IF recs = <<>> THEN 0
  ELSE (IF <<i, j>> \in Head(recs).written THEN 1 ELSE 0)
       + Writes(Tail(recs), i, j)

\* C15: a Jacobian build has min(ml+mu+1, n) groups; column j is perturbed
\* in group (j mod (ml+mu+1)) + 1 and in no other; every entry within the
\* band of its column is written exactly once and no other entry is
\* written.
C15_ColumnPartition ==
  BuiltByDQ =>
    LET recs == GroupRecs(kcalls) IN
    /\ Len(recs) = MIN(BandWidth, kinband_mem.n)
    /\ \A g \in 1..Len(recs) : recs[g].group = g
    /\ \A j \in Idx(kinband_mem.n) : \A g \in 1..Len(recs) :
         j \in recs[g].cols <=> g = (j % BandWidth) + 1
    /\ \A i, j \in Idx(kinband_mem.n) :
         Writes(recs, i, j) = IF i \in Band(j) THEN 1 ELSE 0

\* a build with lower and upper half-bandwidths that differ, with groups of
\* several columns and with entries outside the band
C15_Witness ==
  /\ BuiltByDQ
  /\ kinband_mem.ml # kinband_mem.mu
  /\ kinband_mem.n > 2 * BandWidth
  /\ \E i, j \in Idx(kinband_mem.n) : Writes(GroupRecs(kcalls), i, j) = 0
  /\ \E i, j \in Idx(kinband_mem.n) :
       i # j /\ Writes(GroupRecs(kcalls), i, j) = 1

C17_IncrementNeverZero ==
  BuiltByDQ =>
    \A g \in 1..Len(GroupRecs(kcalls)) :
      \A j \in GroupRecs(kcalls)[g].cols : GroupRecs(kcalls)[g].inc[j] # 0


\* C18: a band solver is attached (lmem points to a band memory) only with
\* 0 <= ml < n and 0 <= mu < n, and its storage_mu is min(n-1, mu+ml), so
\* that mu <= storage_mu <= n-1; a KINBand call that reaches the test with
\* illegal half-bandwidths returns KINBAND_ILL_INPUT and attaches nothing,
\* and one that returns success has attached a solver of the sizes given.
C18_AttachedSizesLegal ==
  /\ kin_mem.lmem = "live" =>
       /\ 0 <= kinband_mem.ml /\ kinband_mem.ml < kinband_mem.n
       /\ 0 <= kinband_mem.mu /\ kinband_mem.mu < kinband_mem.n
       /\ kinband_mem.storage_mu =
            MIN(kinband_mem.n - 1, kinband_mem.mu + kinband_mem.ml)
       /\ kinband_mem.mu <= kinband_mem.storage_mu
       /\ kinband_mem.storage_mu <= kinband_mem.n - 1
  /\ (/\ op = "KINBand" /\ alive
      /\ arg.kinmem # "NULL" /\ arg.compatible /\ arg.memOk
      /\ ~(/\ 0 <= arg.mlower /\ arg.mlower < arg.N
           /\ 0 <= arg.mupper /\ arg.mupper < arg.N)) =>
       /\ ret = KINBAND_ILL_INPUT
       /\ kin_mem.lmem # "live"
  /\ (op = "KINBand" /\ alive /\ ret = KINBAND_SUCCESS) =>
       /\ kin_mem.lmem = "live"
       /\ kinband_mem.n = arg.N
       /\ kinband_mem.mu = arg.mupper
       /\ kinband_mem.ml = arg.mlower

\* KINBand attached a solver whose storage bandwidth is capped at n-1
C18_Witness ==
  /\ op = "KINBand"
  /\ ret = KINBAND_SUCCESS
  /\ kin_mem.lmem = "live"
  /\ kinband_mem.mu + kinband_mem.ml > kinband_mem.n - 1
  /\ kinband_mem.storage_mu = kinband_mem.n - 1
  /\ kinband_mem.mu > 0

\* C19, as stated: when the system function or the Jacobian routine called
\* during a setup returns a nonzero status, the setup returns a value of
\* the same sign (positive for recoverable, negative for unrecoverable).
C19_CallbackFailureSurfaces ==
  (op = "KINBandSetup" /\ alive) =>
    \A i \in 1..Len(kcalls) :
      (kcalls[i].fn \in {"group", "jac"} /\ kcalls[i].status # 0) =>
        /\ kcalls[i].status > 0 => ret > 0
        /\ kcalls[i].status < 0 => ret < 0

\* C20: a setup returns 1 when BandFactor reported a zero pivot (ier > 0)
\* and 0 otherwise, never a negative value, and leaves ier in last_flag.
C20_SetupReturn ==
  (op = "KINBandSetup" /\ alive) =>
    LET ier == kcalls[Len(kcalls)].ier IN
    /\ kcalls[Len(kcalls)].fn = "BandFactor"
    /\ ret = (IF ier > 0 THEN 1 ELSE 0)
    /\ ret >= 0
    /\ kinband_mem.last_flag = ier

\* a setup after a zero pivot in a column other than the first
C20_Witness ==
  /\ op = "KINBandSetup"
  /\ alive
  /\ ret = 1
  /\ kinband_mem.last_flag > 1
  /\ kinband_mem.J = "singular"


\* the setters a direct solver does not support
UnsupportedOps == {"SetATimes", "SetPreconditioner", "SetScalingVectors"}

\* the calls of a solve kernel among the kernel calls
SolveKernelCalls(kc) ==
  {i \in DOMAIN kc : kc[i].fn \in {"klu_solve", "klu_tsolve"}}

\* C22: the variant of a KLU solver is fixed when SUNKLU builds it.  In
\* every step that leaves the solver in existence: the solve kernel in the
\* content is the one SUNKLU chose from the sparse type of the matrix and
\* it is the same after the step as before; a solve in the state reached
\* leaves it the same and calls no other kernel, whether it succeeds or not;
\* SUNLinSolGetType_KLU reports a direct solver; NumIters, ResNorm and
\* NumPSolves return 0; and each unsupported setter returns
\* SUNLS_ILL_INPUT and changes nothing of the content but last_flag, and
\* nothing of the factorization objects.
C22_VariantFixed ==
  [][(alive' /\ handle' = "live") =>
       /\ S.klu_solver = SolverFor(A.sparsetype)
       /\ S'.klu_solver = S.klu_solver
       /\ \A ks \in SolveOracles :
            LET r == SolveBody(Machine(S', heap'), Arg0, x', b', ks) IN
            /\ r.m.S.klu_solver = S.klu_solver
            /\ \A i \in SolveKernelCalls(r.m.kc) :
                 r.m.kc[i].fn = S.klu_solver
       /\ GetTypeBody(Machine(S', heap')).ret = SUNLINEARSOLVER_DIRECT
       /\ ZeroBody(Machine(S', heap')).ret = 0
       /\ (op' \in UnsupportedOps =>
             /\ ret' = SUNLS_ILL_INPUT
             /\ heap' = heap
             /\ [S' EXCEPT !.last_flag = S.last_flag] = S)]_vars

\* an unsupported setter is called on a solver for a CSR matrix that holds
\* a factorization
C22_Witness ==
  /\ alive
  /\ op \in UnsupportedOps
  /\ S.klu_solver = "klu_tsolve"
  /\ S.first_factorize = 0
  /\ S.numeric # NULL
  /\ heap[S.numeric].valid


\* C25: whenever the solver will take the re-factorization path
\* (first_factorize = 0), both the symbolic and the numeric factorization
\* are present.
C25_RefactorDataPresent ==
  (alive /\ handle = "live" /\ S.first_factorize = 0) =>
    (S.symbolic # NULL /\ S.numeric # NULL)


\* the addresses of the factorization objects that exist
LiveObjs(h) == {i \in Slots : h[i].live}

\* the number of objects the kernel calls kc created, and the number of
\* calls that freed one
Created(kc) ==
  Cardinality({i \in DOMAIN kc : kc[i].fn \in {"analyze", "factor"} /\ kc[i].ok})

Frees(kc) ==
  Cardinality({i \in DOMAIN kc : kc[i].fn \in {"free_symbolic", "free_numeric"}})

\* C29: every factorization object is freed exactly once.  After every
\* call the process survives, the objects that exist are exactly the ones
\* the content points to (none was lost by overwriting its pointer); the
\* number of objects changes by the number the call created minus the
\* number of its free calls (no free call hit an object that was already
\* freed); and once SUNLinSolFree_KLU has released the solver no object is
\* left.
C29_FreedExactlyOnce ==
  [][alive' =>
       /\ LiveObjs(heap') = {S'.symbolic, S'.numeric} \ {NULL}
       /\ Cardinality(LiveObjs(heap')) =
            Cardinality(LiveObjs(heap)) + Created(kcalls') - Frees(kcalls')
       /\ (handle' = "freed" => LiveObjs(heap') = {})]_vars

\* the solver is released while it holds both factorizations, after a
\* setup had replaced an earlier factorization
C29_Witness ==
  /\ alive
  /\ op = "Free"
  /\ handle = "freed"
  /\ Count(kcalls, "free_symbolic") = 1
  /\ Count(kcalls, "free_numeric") = 1
  /\ LiveObjs(heap) = {}


\* the operations of a KLU solver that return a status code
StatusOps ==
  {"ReInit", "SetOrdering", "Initialize", "Setup", "Solve"} \cup UnsupportedOps

\* C27: after an operation on the solver that returns a status code,
\* SUNLinSolLastFlag_KLU returns the status that operation returned.
C27_LastFlagIsLastStatus ==
  (alive /\ handle = "live" /\ op \in StatusOps /\ arg.S = "S") =>
    LastFlagBody(Machine(S, heap)).ret = ret


\* C26, as stated: after a successful setup the symbolic analysis behind
\* the factorization was computed with the ordering configured last.
C26_OrderingHonoured ==
  (alive /\ handle = "live" /\ op = "Setup" /\ ret = SUNLS_SUCCESS
     /\ S.symbolic # NULL) =>
    heap[S.symbolic].ordering = S.common.ordering

\* C26, amended: the configured ordering is the one the last successful
\* SUNKLUSetOrdering stored (no other call changes it); a symbolic
\* analysis run by a setup uses it; and a setup that runs no analysis
\* keeps the symbolic object it has, with the ordering that object was
\* computed with.
C26_OrderingUsedByNextAnalysis ==
  [][(alive' /\ handle' = "live") =>
       /\ (op' = "SetOrdering" /\ ret' = SUNLS_SUCCESS) =>
            S'.common.ordering = arg'.ordering_choice
       /\ (op' # "SetOrdering" \/ ret' # SUNLS_SUCCESS) =>
            S'.common.ordering = S.common.ordering
       /\ (op' = "Setup" /\ Called(kcalls', "analyze") /\ S'.symbolic # NULL) =>
            heap'[S'.symbolic].ordering = S.common.ordering
       /\ (op' = "Setup" /\ ~Called(kcalls', "analyze") /\ S.symbolic # NULL) =>
            /\ S'.symbolic = S.symbolic
            /\ heap'[S.symbolic] = heap[S.symbolic]]_vars

\* a setup analyses the matrix with an ordering other than the default,
\* chosen before
C26_Witness ==
  /\ alive
  /\ op = "Setup"
  /\ ret = SUNLS_SUCCESS
  /\ Called(kcalls, "analyze")
  /\ S.common.ordering # SUNKLU_ORDERING_DEFAULT
  /\ S.symbolic # NULL
  /\ heap[S.symbolic].ordering = S.common.ordering


\* the blocks a call allocated and did not release before it returned
Unreleased(kc) ==
  {kc[i].what : i \in {k \in DOMAIN kc :
      /\ kc[k].fn = "malloc"
      /\ kc[k].ok
      /\ ~\E j \in DOMAIN kc :
            j > k /\ kc[j].fn = "free" /\ kc[j].what = kc[k].what}}

\* C28: when KINBand returns an error, lfree is KINBandFree only while lmem
\* points to a band memory that exists (so that a later lfree, or the
\* lfree call of a later KINBand, releases nothing twice and reads no NULL
\* pointer), and every block the failed call allocated has been released.
C28_ErrorLeavesMemoryConsistent ==
  (alive /\ op = "KINBand"
     /\ ret \in {KINBAND_ILL_INPUT, KINBAND_MEM_FAIL}) =>
    /\ (kin_mem.lfree = "KINBandFree" => kin_mem.lmem = "live")
    /\ Unreleased(kcalls) = {}


\* min(ml + mu + 1, n) of a band memory
GroupsOf(mem) == MIN(mem.ml + mem.mu + 1, mem.n)

\* C30: KINBandInit sets nje and nfeB to 0; a KINBandSetup with the
\* difference quotient Jacobian adds 1 to nje and min(ml+mu+1, n) to nfeB,
\* whatever the system function and BandFactor return; so that with that
\* Jacobian, after k setups since KINBandInit, nje = k and
\* nfeB = k * min(ml+mu+1, n).
C30_Counters ==
  [][alive' =>
       /\ (op' = "KINBandInit" =>
             kinband_mem'.nje = 0 /\ kinband_mem'.nfeB = 0)
       /\ (op' = "KINBandSetup" /\ kinband_mem.jac = "KINBandDQJac") =>
             /\ kinband_mem'.nje = kinband_mem.nje + 1
             /\ kinband_mem'.nfeB = kinband_mem.nfeB + GroupsOf(kinband_mem)
       /\ (kinband_mem'.initialized /\ kinband_mem'.jac = "KINBandDQJac") =>
             kinband_mem'.nfeB = kinband_mem'.nje * GroupsOf(kinband_mem')]_vars

\* the second setup since KINBandInit, its factorization failing, with two
\* column groups
C30_Witness ==
  /\ alive
  /\ op = "KINBandSetup"
  /\ kinband_mem.jac = "KINBandDQJac"
  /\ ret = 1
  /\ kinband_mem.nje = 2
  /\ kinband_mem.nfeB = 4


\* the introspection operations of the two solvers
KLUGetOps == {"LastFlag", "NumIters", "NumPSolves"}

BandGetOps ==
  {"KINBandGetWorkSpace", "KINBandGetNumJacEvals", "KINBandGetNumFuncEvals",
   "KINBandGetLastFlag"}

\* the state of the two solvers and of the caller's data
SolverState == <<handle, S, heap, A, x, b, kin_mem, kinband_mem>>

\* C23, as stated: the introspection operations change no solver state
\* and never return an error status.
C23_IntrospectionNeverFails ==
  [][(alive' /\ op' \in KLUGetOps \cup BandGetOps) =>
       /\ SolverState' = SolverState
       /\ (op' \in BandGetOps => ret' = KINBAND_SUCCESS)]_vars

\* the field of the band memory a KINBandGet routine reports
Reported(name, mem) ==
  CASE name = "KINBandGetWorkSpace" -> WorkSpace(mem)
    [] name = "KINBandGetNumJacEvals" -> mem.nje
    [] name = "KINBandGetNumFuncEvals" -> mem.nfeB
    [] name = "KINBandGetLastFlag" -> mem.last_flag

\* whether that field has been assigned
HoldsValue(name, mem) ==
  name \in {"KINBandGetNumJacEvals", "KINBandGetNumFuncEvals"} =>
    Reported(name, mem) # Unassigned

\* C23, amended: the introspection operations change no solver state.
\* SUNLinSolLastFlag_KLU returns last_flag, SUNLinSolNumIters_KLU and
\* SUNLinSolNumPSolves_KLU return 0.  A KINBandGet routine returns
\* KINBAND_MEM_NULL when kinmem is NULL and KINBAND_LMEM_NULL when no band
\* memory is attached, and stores nothing then; otherwise it stores the
\* field it reports (whatever an unassigned counter holds) and returns
\* KINBAND_SUCCESS.
C23_IntrospectionReadOnly ==
  [][(alive' /\ op' \in KLUGetOps \cup BandGetOps) =>
       /\ SolverState' = SolverState
       /\ (op' = "LastFlag" => ret' = S.last_flag)
       /\ (op' \in {"NumIters", "NumPSolves"} => ret' = 0)
       /\ (op' \in BandGetOps =>
             /\ ret' = IF arg'.kinmem = "NULL" THEN KINBAND_MEM_NULL
                       ELSE IF kin_mem.lmem = "NULL" THEN KINBAND_LMEM_NULL
                       ELSE KINBAND_SUCCESS
             /\ (ret' # KINBAND_SUCCESS => kcalls' = <<>>)
             /\ (ret' = KINBAND_SUCCESS =>
                   /\ Len(kcalls') = 1
                   /\ kcalls'[1].fn = "store"
                   /\ (HoldsValue(op', kinband_mem) =>
                         kcalls'[1].value = Reported(op', kinband_mem))))]_vars

\* the count of function evaluations is read after two setups, and the
\* KLU solver holds an error flag
C23_Witness ==
  /\ alive
  /\ op = "KINBandGetNumFuncEvals"
  /\ ret = KINBAND_SUCCESS
  /\ kcalls[1].value = 4
  /\ kinband_mem.nfeB = 4
  /\ S.last_flag = SUNLS_ILL_INPUT


\* the calls on the KLU solver and the calls on the band solver
KLUOps ==
  {"Initialize", "GetType", "NumIters", "ResNorm", "NumPSolves", "LastFlag"}
  \cup UnsupportedOps

BandOps ==
  {"KINBand", "KINBandFree", "KINBandInit", "KINBandSetJacFn", "KINBandSetup",
   "KINBandSolve", "KINBandBadLmem"} \cup BandGetOps

\* C24: a KLU solver and a band solver that share nothing run in one
\* process, their calls interleaved in every order.  A call on one solver
\* leaves the other solver as it was, able to go on: it changes neither
\* the other solver's memory nor whether the process runs.
C24_InstancesIndependent ==
  [][/\ op' \in BandOps => <<alive, handle, S, heap, A, x, b>>' =
                             <<alive, handle, S, heap, A, x, b>>
     /\ op' \in KLUOps => <<alive, kin_mem, kinband_mem>>' =
                            <<alive, kin_mem, kinband_mem>>]_vars


---------------------------------------------------------------------------
(* The Jacobian routine and its data *)

\* the band memory holds the internal routine only together with the
\* KINSOL memory as its data
DQJacHasKinMem(mem) == mem.jac = "KINBandDQJac" => mem.J_data = "kin_mem"

\* C31: in every state reached through KINBand, KINBandSetJacFn and
\* KINBandInit (and the other calls of the band solver), the Jacobian
\* routine being the internal KINBandDQJac implies that J_data is the
\* KINSOL memory; and right after KINBandInit the routine is not NULL: a
\* routine that KINBandSetJacFn set to NULL is KINBandDQJac again, with
\* J_data = kin_mem.
C31_DQJacData ==
  [][/\ DQJacHasKinMem(kinband_mem)
     /\ DQJacHasKinMem(kinband_mem')
     /\ (op' = "KINBandInit" /\ alive') =>
          /\ kinband_mem'.jac # "NULL"
          /\ (kinband_mem.jac = "NULL" =>
                /\ kinband_mem'.jac = "KINBandDQJac"
                /\ kinband_mem'.J_data = "kin_mem")
          /\ (kinband_mem.jac # "NULL" =>
                /\ kinband_mem'.jac = kinband_mem.jac
                /\ kinband_mem'.J_data = kinband_mem.J_data)]_vars

\* KINBandInit has run on an attached band memory, which holds the
\* internal routine with the KINSOL memory as its data
C31_Witness ==
  /\ alive
  /\ op = "KINBandInit"
  /\ kin_mem.lmem = "live"
  /\ kinband_mem.jac = "KINBandDQJac"
  /\ kinband_mem.J_data = "kin_mem"
  /\ kinband_mem.initialized

---------------------------------------------------------------------------
(* Errors of SUNKLUReInit and SUNKLUSetOrdering *)

\* the statuses with which the two calls refuse
ReInitErrors == {SUNLS_MEM_NULL, SUNLS_ILL_INPUT, SUNLS_MEM_FAIL}

\* C32: when SUNKLUReInit or SUNKLUSetOrdering returns an error
\* (SUNLS_MEM_NULL for a NULL solver or matrix, SUNLS_ILL_INPUT for a matrix
\* that is not seen as sparse, a reinit_type outside {1,2} or an ordering
\* outside 0..2, SUNLS_MEM_FAIL for a failed allocation), the solver's
\* symbolic data, numeric data, first_factorize flag and ordering are as
\* they were, and no KLU object was released.
C32_ErrorKeepsSolver ==
  [][(alive' /\ op' \in {"ReInit", "SetOrdering"} /\ ret' # SUNLS_SUCCESS) =>
       /\ ret' \in ReInitErrors
       /\ (ret' = SUNLS_MEM_NULL => arg'.S = "NULL" \/ arg'.h = "NULL")
       /\ (ret' = SUNLS_ILL_INPUT /\ op' = "SetOrdering" =>
             arg'.ordering_choice \notin 0..2)
       /\ (ret' = SUNLS_ILL_INPUT /\ op' = "ReInit" =>
             \/ arg'.reinit_type \notin {1, 2}
             \/ arg'.h = "D"
             \/ ~A.live)
       /\ (ret' = SUNLS_MEM_FAIL =>
             op' = "ReInit" /\ arg'.reinit_type = 1)
       /\ S'.symbolic = S.symbolic
       /\ S'.numeric = S.numeric
       /\ S'.first_factorize = S.first_factorize
       /\ S'.common.ordering = S.common.ordering
       /\ heap' = heap]_vars

\* SUNKLUReInit has failed to allocate the new matrix on a solver that
\* holds a factorization made with an ordering of the caller
C32_Witness ==
  /\ alive
  /\ op = "ReInit"
  /\ ret = SUNLS_MEM_FAIL
  /\ S.symbolic # NULL
  /\ S.numeric # NULL
  /\ S.first_factorize = 0
  /\ S.common.ordering = 0

---------------------------------------------------------------------------
(* The constructor *)

\* the vector is of a type the build supports
SupportedVector(y, e) ==
  y.id \in {"SUNDIALS_NVEC_SERIAL"}
            \cup (IF e.openmp THEN {"SUNDIALS_NVEC_OPENMP"} ELSE {})
            \cup (IF e.pthreads THEN {"SUNDIALS_NVEC_PTHREADS"} ELSE {})

\* C33: SUNKLU returns NULL unless the matrix is sparse, square, and its
\* row count equals the length of a vector of a supported type; a returned
\* solver starts with last_flag = 0, first_factorize set, no symbolic and
\* no numeric data, the default ordering, and the plain solve kernel for a
\* CSC matrix or the transpose solve kernel for a CSR matrix.
C33_Constructor ==
  [][(alive' /\ op' = "SUNKLU") =>
       LET y == arg'.y
           M == arg'.M
           e == arg'.e
           fits == /\ M.id = SUNMATRIX_SPARSE
                   /\ M.M = M.N
                   /\ SupportedVector(y, e)
                   /\ M.M = y.length
       IN /\ handle' \in {"live", "NULL"}
          /\ (~fits => handle' = "NULL" /\ ret' = 0)
          /\ (handle' = "live" =>
                /\ ret' = 1
                /\ S'.last_flag = 0
                /\ S'.first_factorize = 1
                /\ S'.symbolic = NULL
                /\ S'.numeric = NULL
                /\ S'.common.ordering = SUNKLU_ORDERING_DEFAULT
                /\ (M.sparsetype = CSC_MAT => S'.klu_solver = "klu_solve")
                /\ (M.sparsetype = CSR_MAT => S'.klu_solver = "klu_tsolve")
                /\ \A i \in Slots : ~heap'[i].live)]_vars

\* SUNKLU has returned a solver for a square CSR matrix and a vector of an
\* optional type that the build supports
C33_Witness ==
  /\ alive
  /\ op = "SUNKLU"
  /\ handle = "live"
  /\ kcalls # <<>>
  /\ A.sparsetype = CSR_MAT
  /\ S.klu_solver = "klu_tsolve"
  /\ arg.y.id = "SUNDIALS_NVEC_PTHREADS"
  /\ arg.M.M = MaxRows

---------------------------------------------------------------------------
(* The Jacobian evaluations of the setups *)

\* the evaluations of the Jacobian routine among what a call did: the
\* column groups of KINBandDQJac, or the call of the caller's routine
JacEvals(kc) == {i \in DOMAIN kc : kc[i].fn \in {"group", "jac"}}

=============================================================================
